---- MODULE Spec2Model ----
(***************************************************************************)
(* A model of piceus, the Traefik plugin catalog scrapper: the Run loop    *)
(* over the discovered repositories, the per-repository pipeline process,  *)
(* and the interpreted-code check (yaegiCheck, yaegiMiddlewareCheck,       *)
(* callNew, checkFunctionNewSignature, dropSensitiveEnvVars).              *)
(*                                                                         *)
(* Go strings are modelled as sequences of one-character strings, so that  *)
(* strings.ToLower, strings.Contains and strings.HasPrefix are computed.   *)
(***************************************************************************)
EXTENDS Integers, Sequences, FiniteSets, TLC

\* ------------------------------------------------------------------ bounds

\* Number of repositories returned by the search (Spec).
NumRepos == 3

\* Largest number of variables in the initial process environment (SpecYaegi).
MaxEnvVars == 2

\* Longest parameter list and result list of a candidate New (SpecSig).
MaxIn == 5

MaxOut == 3

\* Longest list of requirements of a go.mod (SpecNames).
MaxRequires == 2

\* ----------------------------------------------------------------- strings

UpperChars == <<"A","B","C","D","E","F","G","H","I","J","K","L","M",
                "N","O","P","Q","R","S","T","U","V","W","X","Y","Z">>

LowerChars == <<"a","b","c","d","e","f","g","h","i","j","k","l","m",
                "n","o","p","q","r","s","t","u","v","w","x","y","z">>

\* unicode.ToLower on one (ASCII) character.
ToLowerChar(c) ==
    IF \E i \in 1..Len(UpperChars) : UpperChars[i] = c
    THEN LowerChars[CHOOSE i \in 1..Len(UpperChars) : UpperChars[i] = c]
    ELSE c

\* strings.ToLower
ToLower(s) == [i \in 1..Len(s) |-> ToLowerChar(s[i])]

\* strings.Contains
Contains(s, sub) ==
    \E i \in 1..(Len(s) - Len(sub) + 1) : SubSeq(s, i, i + Len(sub) - 1) = sub

\* strings.HasPrefix
HasPrefix(s, prefix) ==
    Len(prefix) <= Len(s) /\ SubSeq(s, 1, Len(prefix)) = prefix

\* strings.ReplaceAll(s, old, new) for one-character old and new.
ReplaceAll(s, old, new) == [i \in 1..Len(s) |-> IF s[i] = old THEN new ELSE s[i]]

\* path.Join(a, b) of two clean, non-empty paths.
PathJoin(a, b) == a \o <<"/">> \o b

GithubCom == <<"g", "i", "t", "h", "u", "b", ".", "c", "o", "m">>

\* checkRepoName: the error it returns, "" for nil.
checkRepoName(fullName, module, import) ==
    LET repoName == PathJoin(GithubCom, fullName)
    IN  IF ~HasPrefix(module, repoName)
            THEN "the module name doesn't contain the GitHub repository name"
        ELSE IF ~HasPrefix(import, repoName)
            THEN "the import name doesn't contain the GitHub repository name"
        ELSE ""

\* The module paths a plugin must not require.
ForbiddenPaths ==
    { <<"g", "i", "t", "h", "u", "b", ".", "c", "o", "m", "/", "c", "o", "n", "t", "a", "i", "n", "o", "u", "s", "/", "y", "a", "e", "g", "i">>,
      <<"g", "i", "t", "h", "u", "b", ".", "c", "o", "m", "/", "c", "o", "n", "t", "a", "i", "n", "o", "u", "s", "/", "t", "r", "a", "e", "f", "i", "k">>,
      <<"g", "i", "t", "h", "u", "b", ".", "c", "o", "m", "/", "c", "o", "n", "t", "a", "i", "n", "o", "u", "s", "/", "m", "a", "e", "s", "h">>,
      <<"g", "i", "t", "h", "u", "b", ".", "c", "o", "m", "/", "t", "r", "a", "e", "f", "i", "k", "/", "y", "a", "e", "g", "i">>,
      <<"g", "i", "t", "h", "u", "b", ".", "c", "o", "m", "/", "t", "r", "a", "e", "f", "i", "k", "/", "t", "r", "a", "e", "f", "i", "k">>,
      <<"g", "i", "t", "h", "u", "b", ".", "c", "o", "m", "/", "t", "r", "a", "e", "f", "i", "k", "/", "m", "e", "s", "h">> }

\* The condition of checkModuleFile on one require.Mod.Path.
IsForbidden(path) == \E f \in ForbiddenPaths : Contains(path, f)

\* A checkModuleFile that looks at the first requirement only.
checkModuleFileFirstOnly(requires, module, import) ==
    IF Len(requires) > 0 /\ IsForbidden(requires[1])
        THEN "a plugin cannot have a dependence to"
    ELSE IF ~HasPrefix(ReplaceAll(import, "-", "_"), ReplaceAll(module, "-", "_"))
        THEN "the import must be related to the module name"
    ELSE ""

\* A checkModuleFile that compares the paths as they are written.
checkModuleFileNoNormalize(requires, module, import) ==
    IF \E i \in 1..Len(requires) : IsForbidden(requires[i])
        THEN "a plugin cannot have a dependence to"
    ELSE IF ~HasPrefix(import, module)
        THEN "the import must be related to the module name"
    ELSE ""

\* checkModuleFile on mod.Require, mod.Module.Mod.Path and manifest.Import:
\* the error it returns, "" for nil.
checkModuleFile(requires, module, import) ==
    IF \E i \in 1..Len(requires) : IsForbidden(requires[i])
        THEN "a plugin cannot have a dependence to"
    ELSE IF ~HasPrefix(ReplaceAll(import, "-", "_"), ReplaceAll(module, "-", "_"))
        THEN "the import must be related to the module name"
    ELSE ""

\* ------------------------------------------------------------- environment

\* The keys the process environment may hold.  Six carry one of the
\* sensitive substrings (in varying case), two do not.
EnvKeys ==
    { <<"G","I","T","H","U","B","_","T","O","K","E","N">>,
      <<"D","b","_","P","a","s","s","w","o","r","d">>,
      <<"U","S","E","R","N","A","M","E">>,
      <<"A","P","I","_","U","R","L">>,
      <<"D","B","_","H","O","S","T">>,
      <<"d","b","_","p","o","r","t">>,
      <<"P","A","T","H">>,
      <<"H","O","S","T","N","A","M","E">> }

\* The value of a variable: a secret, or the empty string (KEY=).
EnvValues == { <<"s","3","c","r","3","t">>, <<>> }

\* The substrings of dropSensitiveEnvVars.
SensitiveSubstrings ==
    { <<"t","o","k","e","n">>,
      <<"p","a","s","s","w","o","r","d">>,
      <<"u","s","e","r","n","a","m","e">>,
      <<"_","u","r","l">>,
      <<"_","h","o","s","t">>,
      <<"_","p","o","r","t">> }

\* The condition of dropSensitiveEnvVars on pair[0].
IsSensitiveKey(k) ==
    LET key == ToLower(k)
    IN  \E sub \in SensitiveSubstrings : Contains(key, sub)

\* The environment is a function from the keys that are set to their values.
EmptyEnv == [k \in {} |-> <<>>]

\* os.Unsetenv over every sensitive variable of os.Environ().
DropEnv(e) == [k \in {x \in DOMAIN e : ~IsSensitiveKey(x)} |-> e[k]]

\* bckEnviron as dropSensitiveEnvVars fills it: pair[0] -> pair[1].
BackupEnv(e) == [k \in {x \in DOMAIN e : IsSensitiveKey(x)} |-> e[k]]

\* A tearDown that sets nothing.
TearDownNothing(e, b) == e

\* The returned tearDown: os.Setenv(k, v) for every entry of bckEnviron.
TearDownEnv(e, b) ==
    [k \in (DOMAIN e) \cup (DOMAIN b) |-> IF k \in DOMAIN b THEN b[k] ELSE e[k]]

\* The initial environments: at most MaxEnvVars variables.
InitialEnvs ==
    UNION { [K -> EnvValues] : K \in {S \in SUBSET EnvKeys : Cardinality(S) <= MaxEnvVars} }

\* ------------------------------------------------------ types (reflection)

\* The Go types a candidate New may mention.  kind is reflect.Kind, named is
\* whether the type is a defined (named) type, under is the underlying type
\* and impl is the set of interfaces of the contract the type implements.
GoTypes ==
    [ name  : {"context.Context"}, kind : {"interface"}, named : {TRUE},
      under : {"interface{Deadline;Done;Err;Value}"}, impl : {{"context.Context"}} ]
    \cup
    [ name  : {"http.Handler"}, kind : {"interface"}, named : {TRUE},
      under : {"interface{ServeHTTP}"}, impl : {{"http.Handler"}} ]
    \cup
    [ name  : {"error"}, kind : {"interface"}, named : {TRUE},
      under : {"interface{Error}"}, impl : {{"error"}} ]
    \cup
    [ name  : {"interface{}"}, kind : {"interface"}, named : {FALSE},
      under : {"interface{}"}, impl : {{}} ]
    \cup
    [ name  : {"http.HandlerFunc"}, kind : {"func"}, named : {TRUE},
      under : {"func(http.ResponseWriter,*http.Request)"}, impl : {{"http.Handler"}} ]
    \cup
    [ name  : {"*Config"}, kind : {"ptr"}, named : {FALSE},
      under : {"*Config"}, impl : {{}} ]
    \cup
    [ name  : {"string"}, kind : {"string"}, named : {TRUE},
      under : {"string"}, impl : {{}} ]
    \cup
    [ name  : {"MyString"}, kind : {"string"}, named : {TRUE},
      under : {"string"}, impl : {{}} ]

TypeOf(n) == CHOOSE t \in GoTypes : t.name = n

\* reflect.Type.Implements(u) for an interface type u of the contract; every
\* type implements the empty interface.
Implements(t, u) ==
    /\ TypeOf(u).kind = "interface"
    /\ (u = "interface{}" \/ u \in TypeOf(t).impl)

\* reflect.directlyAssignable(T, V): identical types, or identical
\* underlying types of the same kind with at most one of them named.
DirectlyAssignable(T, V) ==
    \/ T = V
    \/ /\ ~(TypeOf(T).named /\ TypeOf(V).named)
       /\ TypeOf(T).kind = TypeOf(V).kind
       /\ TypeOf(T).under = TypeOf(V).under

\* reflect.Type.AssignableTo: a value of type t can be assigned to type u.
AssignableTo(t, u) == DirectlyAssignable(u, t) \/ Implements(t, u)

\* The type of the value CreateConfig returns in the fixtures.
ConfigType == "*Config"

\* The parameter and result types the candidate signatures are drawn from.
InTypes == {"context.Context", "http.Handler", "*Config", "string", "MyString", "interface{}"}

OutTypes == {"http.Handler", "error", "http.HandlerFunc"}

SeqsUpTo(S, n) == UNION { [1..k -> S] : k \in 0..n }

\* A function type: its parameter types and its result types.
Signatures == [in : SeqsUpTo(InTypes, MaxIn), out : SeqsUpTo(OutTypes, MaxOut)]

\* func New(ctx context.Context, next http.Handler, config *Config, name string) (http.Handler, error)
GoodSignature ==
    [in  |-> <<"context.Context", "http.Handler", "*Config", "string">>,
     out |-> <<"http.Handler", "error">>]

\* The third parameter check of checkFunctionNewSignature, as the code has it:
\* fnNew.Type().In(2).AssignableTo(vConfig.Type()).
ConfigParamOK(param, cfg) == AssignableTo(param, cfg)

\* checkFunctionNewSignature: the error it returns, "" for nil.
checkFunctionNewSignature(fn, cfg) ==
    IF Len(fn.in) # 4
        THEN "invalid input arguments: got n arguments expected 4"
    ELSE IF ~Implements(fn.in[1], "context.Context")
        THEN "invalid input arguments: the 1st argument must have the type context.Context"
    ELSE IF ~Implements(fn.in[2], "http.Handler")
        THEN "invalid input arguments: the 2nd argument must have the type http.Handler"
    ELSE IF ~ConfigParamOK(fn.in[3], cfg)
        THEN "invalid input arguments: the 3rd argument must have the same type as the Config structure"
    ELSE IF TypeOf(fn.in[4]).kind # "string"
        THEN "invalid input arguments: the 4th argument must have the type string"
    ELSE IF Len(fn.out) # 2
        THEN "invalid output arguments: got n arguments expected 2"
    ELSE IF ~Implements(fn.out[1], "http.Handler")
        THEN "invalid input arguments: the 1st argument must have the type http.Handler"
    ELSE IF ~Implements(fn.out[2], "error")
        THEN "invalid input arguments: the 2nd argument must have the type error"
    ELSE ""

\* ------------------------------------------------------------------- state

VARIABLES
    runCtx,      \* the context passed to Run: "active" or "cancelled"
    runRes,      \* what Run returned: "running", "nil" or "err"
    pc,          \* where the calling goroutine is
    idx,         \* the index of the repository of the current iteration
    manifest,    \* the manifest of the current repository
    moduleName,  \* the module path of the current repository
    fnNew,       \* the signature of the New function of the current plugin
    steps,       \* the steps process took for the current repository, with their outcome
    openIssues,  \* the repositories with an open analyzer issue
    existing,    \* reposWithExistingIssue of the run
    procRes,     \* per repository, what process returned
    pgCalls,     \* per repository, the catalog client calls made for it
    issues,      \* per repository, the calls of Issues.Create in this run
    env,         \* the process environment (os.Environ)
    envAtCall,   \* the environment when yaegiCheck was last called
    bck,         \* bckEnviron of the tearDown in flight
    ckCtx,       \* the context yaegiMiddlewareCheck created: "none", "active", "done"
    g,           \* per repository, the goroutine callNew started for it
    yerr,        \* the error of the interpreted-code check in progress
    acts,        \* what the verifier of the current repository was asked to do
    panics,      \* where plugin code of the current repository panicked, and the value
    crashed,     \* the process died of an unrecovered panic
    lookup,      \* prev, err of the short-circuit lookup, with the observed tag and stars
    call         \* a function called on its own: its name, arguments and result

vars == << runCtx, runRes, pc, idx, manifest, moduleName, fnNew, steps, openIssues,
           existing, procRes,
           pgCalls, issues, env, envAtCall, bck, ckCtx, g, yerr, acts, panics, crashed,
           lookup, call >>

\* The variables of Run and process that the interpreted-code check leaves alone.
runVars == << runCtx, runRes, idx, manifest, moduleName, steps, openIssues, existing,
             procRes, pgCalls, issues, lookup, call >>

\* The same, with the record of the environment at the call of yaegiCheck.
runVarsE == << runVars, envAtCall >>

Repos == 1..NumRepos

typeMiddleware == "middleware"

typeProvider == "provider"

runtimeWasm == "wasm"

\* skipNewCall and blacklist of NewScrapper.
skipNewCall == {"github.com/negasus/traefik-plugin-ip2location"}

blacklist == {"containous/plugintestxxx", "esenac/traefik-custom-router"}

\* The full name of the r-th repository of the search result.
RepoFullName(r) ==
    CASE r = 1 -> "acme/demo"
      [] r = 2 -> "containous/plugintestxxx"
      [] r = 3 -> "negasus/traefik-plugin-ip2location"
      [] OTHER -> "acme/extra"

\* path.Join("github.com", repository.GetFullName())
GithubPath(fullName) ==
    CASE fullName = "acme/demo" -> "github.com/acme/demo"
      [] fullName = "containous/plugintestxxx" -> "github.com/containous/plugintestxxx"
      [] fullName = "negasus/traefik-plugin-ip2location" -> "github.com/negasus/traefik-plugin-ip2location"
      [] OTHER -> "github.com/acme/extra"

\* The module paths a go.mod may declare: the repository's own, or another's.
ModuleNames == {GithubPath(RepoFullName(r)) : r \in Repos} \cup {"github.com/evil/fork"}

\* The manifests a repository may carry (Type, Runtime, UseUnsafe).  The
\* type "bogus" stands for every type loadManifestContent rejects.
Manifests ==
    [Type : {typeMiddleware, typeProvider, "bogus"},
     Runtime : {"", runtimeWasm, "yaegi"},
     UseUnsafe : BOOLEAN]

NoManifest == [Type |-> "", Runtime |-> "", UseUnsafe |-> FALSE]

\* A nil *plugin.Plugin.
NoPlugin == [nil |-> TRUE]

\* No function is called on its own.
NoCall == [fn |-> "", args |-> <<>>, res |-> ""]

\* No lookup is in flight.
NoLookup == [prev |-> NoPlugin, err |-> "none", latestVersion |-> "", stars |-> 0]

\* The values plugin code panics with.
PanicValues == {"boom"}

\* An error: kind is its message, pv the panic value the message includes,
\* cause the error of the context it wraps.
NoErr == [kind |-> "nil", pv |-> "", cause |-> ""]

Err(k) == [kind |-> k, pv |-> "", cause |-> ""]

PanicErr(k, v) == [kind |-> k, pv |-> v, cause |-> ""]

\* fmt.Errorf("...: %w", ctx.Err())
CtxErr(k) == [kind |-> k, pv |-> "", cause |-> "context deadline exceeded"]

\* The goroutine of callNew: pc is its position, h whether results[0] holds an
\* http.Handler, e whether results[1] is a non-nil error, pv the recovered
\* panic value, tries the send statements it reached, sent those completed.
NoGoroutine == [pc |-> "none", h |-> FALSE, e |-> FALSE, pv |-> "", tries |-> 0, sent |-> 0]

SendPcs == {"sendPanic", "sendErr", "sendInvalid", "sendNil"}

\* The candidate New functions a plugin of the pipeline may export.
SigSamples ==
    { GoodSignature,
      [in |-> <<"context.Context", "http.Handler", "*Config">>, out |-> <<"http.Handler", "error">>],
      [in |-> <<"context.Context", "http.Handler", "interface{}", "string">>, out |-> <<"http.Handler", "error">>],
      [in |-> <<"context.Context", "http.Handler", "*Config", "string">>, out |-> <<"http.Handler">>] }

NoSignature == [in |-> <<>>, out |-> <<>>]

\* ------------------------------------------------- the interpreted-code check

\* The deferred recover of yaegiCheck: a panic that unwinds to it becomes the
\* returned error "panic from yaegi: <value>".
RecoverYaegi(err) ==
    IF err.kind = "panicking" THEN PanicErr("panic from yaegi", err.pv) ELSE err

\* A switch of yaegiCheck that runs yaegiMiddlewareCheck on every middleware.
SwitchIgnoringUnsafe(m) ==
    IF m.Type = typeMiddleware THEN "yaegiMiddlewareCheck"
    ELSE IF m.Type = typeProvider THEN "nil"
    ELSE "unsupported type"

\* The switch of yaegiCheck on manifest.Type: what the function returns, or
\* the check it goes on to.
Switch(m) ==
    IF m.Type = typeMiddleware
    THEN IF m.UseUnsafe THEN "nil" ELSE "yaegiMiddlewareCheck"
    ELSE IF m.Type = typeProvider THEN "nil"
    ELSE "unsupported type"

\* yaegiCheck up to its switch: the deferred recover is installed,
\* dropSensitiveEnvVars runs, and the manifest type selects the check.
YaegiCheckEnter ==
    /\ pc = "yaegiCheck"
    /\ ~crashed
    /\ bck' = BackupEnv(env)
    /\ env' = DropEnv(env)
    /\ pc' = IF Switch(manifest) = "yaegiMiddlewareCheck" THEN "ymcStart" ELSE "yReturn"
    /\ yerr' = IF Switch(manifest) = "unsupported type" THEN Err("unsupported type") ELSE NoErr
    /\ envAtCall' = env
    /\ UNCHANGED << runVars, fnNew, ckCtx, g, acts, panics, crashed >>

\* yaegiMiddlewareCheck: context.WithTimeout(context.Background(), 10s),
\* interp.New and i.Use(stdlib.Symbols).
MiddlewareCheckStart ==
    /\ pc = "ymcStart"
    /\ ckCtx' = "active"
    /\ acts' = acts \cup {"interp"}
    /\ \E ok \in BOOLEAN :
         IF ok THEN pc' = "import" /\ yerr' = yerr
               ELSE pc' = "yReturn" /\ yerr' = Err("load of stdlib symbols")
    /\ UNCHANGED << runVarsE, fnNew, env, bck, g, panics, crashed >>

\* The 10 s timeout of the check's context elapses.
Deadline ==
    /\ ckCtx = "active"
    /\ ckCtx' = "done"
    /\ UNCHANGED << runVarsE, pc, fnNew, env, bck, g, yerr, acts, panics, crashed >>

\* i.EvalWithContext(ctx, `import "<manifest.Import>"`) starts: the package
\* and its init functions are being interpreted.
ImportStart ==
    /\ pc = "import"
    /\ pc' = "importing"
    /\ acts' = acts \cup {"import"}
    /\ UNCHANGED << runVarsE, fnNew, env, bck, ckCtx, g, yerr, panics, crashed >>

\* The evaluation of plugin code ends by itself: with a value, with an error,
\* with a panic the interpreter returns as an error, or with a panic that
\* unwinds the calling goroutine.  When the context is done as well,
\* EvalWithContext may return ctx.Err() instead of the panic.
EvalOutcomes(ctx) ==
    {"ok", "err", "panicErr", "panicUnwind"} \cup (IF ctx = "done" THEN {"panicLate"} ELSE {})

EvalFinish(at, next, errKind) ==
    /\ pc = at
    /\ \E o \in EvalOutcomes(ckCtx), v \in PanicValues :
         CASE o = "ok" ->
                /\ pc' = next /\ yerr' = yerr /\ panics' = panics
           [] o = "err" ->
                /\ pc' = "yReturn" /\ yerr' = Err(errKind) /\ panics' = panics
           [] o = "panicErr" ->
                /\ pc' = "yReturn" /\ yerr' = PanicErr(errKind, v)
                /\ panics' = panics \cup {<<at, v>>}
           [] o = "panicUnwind" ->
                /\ pc' = "yReturn" /\ yerr' = PanicErr("panicking", v)
                /\ panics' = panics \cup {<<at, v>>}
           [] o = "panicLate" ->
                /\ pc' = "yReturn" /\ yerr' = CtxErr(errKind)
                /\ panics' = panics \cup {<<at, v>>}
    /\ UNCHANGED << runVarsE, fnNew, env, bck, ckCtx, g, acts, crashed >>

\* EvalWithContext returns ctx.Err() once the check's context is done.
EvalTimeout(at, errKind) ==
    /\ pc = at
    /\ ckCtx = "done"
    /\ pc' = "yReturn"
    /\ yerr' = CtxErr(errKind)
    /\ UNCHANGED << runVarsE, fnNew, env, bck, ckCtx, g, acts, panics, crashed >>

ImportFinish == EvalFinish("importing", "createConfig", "load of the plugin")

ImportTimeout == EvalTimeout("importing", "load of the plugin")

\* i.EvalWithContext(ctx, basePkg+".CreateConfig()")
CreateConfigStart ==
    /\ pc = "createConfig"
    /\ pc' = "creatingConfig"
    /\ acts' = acts \cup {"CreateConfig"}
    /\ UNCHANGED << runVarsE, fnNew, env, bck, ckCtx, g, yerr, panics, crashed >>

CreateConfigFinish == EvalFinish("creatingConfig", "decodeConfig", "failed to eval CreateConfig")

CreateConfigTimeout == EvalTimeout("creatingConfig", "failed to eval CreateConfig")

\* decodeConfig(vConfig, manifest.TestData)
DecodeConfig ==
    /\ pc = "decodeConfig"
    /\ \E ok \in BOOLEAN :
         IF ok THEN pc' = "evalNew" /\ yerr' = yerr
               ELSE pc' = "yReturn" /\ yerr' = Err("failed to decode configuration")
    /\ UNCHANGED << runVarsE, fnNew, env, bck, ckCtx, g, acts, panics, crashed >>

\* i.EvalWithContext(ctx, basePkg+".New"): the symbol is resolved, no plugin
\* code runs.
EvalNew ==
    /\ pc = "evalNew"
    /\ \/ \E s \in SigSamples :
             /\ fnNew' = s /\ pc' = "sigCheck" /\ yerr' = yerr
       \/ /\ fnNew' = fnNew /\ pc' = "yReturn" /\ yerr' = Err("failed to eval New")
    /\ UNCHANGED << runVarsE, env, bck, ckCtx, g, acts, panics, crashed >>

\* checkFunctionNewSignature(fnNew, vConfig)
CheckSignature ==
    /\ pc = "sigCheck"
    /\ acts' = acts \cup {"signature"}
    /\ IF checkFunctionNewSignature(fnNew, ConfigType) # ""
       THEN pc' = "yReturn" /\ yerr' = Err("the signature of the function New is invalid")
       ELSE pc' = "callNew" /\ yerr' = yerr
    /\ UNCHANGED << runVarsE, fnNew, env, bck, ckCtx, g, panics, crashed >>

\* if !skipNew { return callNew(...) }; return nil
SkipNew ==
    /\ pc = "callNew"
    /\ moduleName \in skipNewCall
    /\ pc' = "yReturn"
    /\ yerr' = NoErr
    /\ UNCHANGED << runVarsE, fnNew, env, bck, ckCtx, g, acts, panics, crashed >>

\* callNew up to its select: errCh is made (unbuffered) and the goroutine is
\* started.
CallNew ==
    /\ pc = "callNew"
    /\ moduleName \notin skipNewCall
    /\ pc' = "select"
    /\ g' = [g EXCEPT ![idx] = [NoGoroutine EXCEPT !.pc = "start"]]
    /\ acts' = acts \cup {"callNew"}
    /\ UNCHANGED << runVarsE, fnNew, env, bck, ckCtx, yerr, panics, crashed >>

\* The goroutine builds args and enters safeFnCall: fn.Call(args) runs the
\* plugin's constructor.
NewStart(r) ==
    /\ g[r].pc = "start"
    /\ g' = [g EXCEPT ![r].pc = "calling"]
    /\ acts' = IF r = idx THEN acts \cup {"New"} ELSE acts
    /\ UNCHANGED << runVarsE, pc, fnNew, env, bck, ckCtx, yerr, panics, crashed >>

\* The position of the goroutine after a completed or skipped send, given
\* what was just done: lines 306-314 of callNew fall through from the error
\* send to the handler check and from there to errCh <- nil.
AfterErrCheck(h) == IF h THEN "sendNil" ELSE "sendInvalid"

AfterSend(at, h) ==
    CASE at = "sendPanic"   -> "exit"
      [] at = "sendErr"     -> AfterErrCheck(h)
      [] at = "sendInvalid" -> "sendNil"
      [] at = "sendNil"     -> "exit"

\* A safeFnCall without its deferred recover.
safeFnCallNoRecover(v) == [recovered |-> FALSE, errCall |-> v]

\* safeFnCall on a panic of fn.Call with value v: the deferred recover turns
\* it into errCall, "panic during the call of the function: <v>".
safeFnCall(v) == [recovered |-> TRUE, errCall |-> v]

\* The constructor returns (results[0], results[1]); the goroutine reaches
\* its first send statement.
NewReturns(r) ==
    /\ g[r].pc = "calling"
    /\ \E h \in BOOLEAN, e \in BOOLEAN :
         g' = [g EXCEPT ![r] = [@ EXCEPT !.pc = IF e THEN "sendErr" ELSE AfterErrCheck(h),
                                         !.h = h, !.e = e, !.tries = 1]]
    /\ UNCHANGED << runVarsE, pc, fnNew, env, bck, ckCtx, yerr, acts, panics, crashed >>

\* The constructor panics: safeFnCall recovers and the goroutine reaches the
\* send of "the function New ... produce a panic".
NewPanics(r) ==
    /\ g[r].pc = "calling"
    /\ \E v \in PanicValues :
         /\ panics' = IF r = idx THEN panics \cup {<<"New", v>>} ELSE panics
         /\ IF safeFnCall(v).recovered
            THEN /\ g' = [g EXCEPT ![r] = [@ EXCEPT !.pc = "sendPanic", !.pv = safeFnCall(v).errCall,
                                                    !.tries = 1]]
                 /\ crashed' = crashed
            ELSE /\ g' = [g EXCEPT ![r].pc = "exit"]
                 /\ crashed' = TRUE
    /\ UNCHANGED << runVarsE, pc, fnNew, env, bck, ckCtx, yerr, acts >>

\* What the select of callNew receives from a goroutine at a send statement.
SentError(gr) ==
    CASE gr.pc = "sendPanic"   -> PanicErr("the function New produce a panic", gr.pv)
      [] gr.pc = "sendErr"     -> Err("failed to create a new plugin instance")
      [] gr.pc = "sendInvalid" -> Err("invalid handler type")
      [] gr.pc = "sendNil"     -> NoErr

\* A callNew that only receives from errCh.
ReadyCasesNoDone(gpc, ctx) == IF gpc \in SendPcs THEN {"errCh"} ELSE {}

\* The cases of the select of callNew that can proceed: the receive from
\* errCh when the goroutine stands at a send, <-ctx.Done() when the context of
\* the check is done.
ReadyCases(gpc, ctx) ==
    (IF gpc \in SendPcs THEN {"errCh"} ELSE {}) \cup (IF ctx = "done" THEN {"ctx.Done"} ELSE {})

\* select { case err := <-errCh: return err }: the unbuffered channel hands
\* the value over, the goroutine goes on to its next statement.
SelectRecv ==
    /\ pc = "select"
    /\ "errCh" \in ReadyCases(g[idx].pc, ckCtx)
    /\ yerr' = SentError(g[idx])
    /\ pc' = "yReturn"
    /\ LET next == AfterSend(g[idx].pc, g[idx].h)
       IN  g' = [g EXCEPT ![idx] = [@ EXCEPT !.pc = next, !.sent = @ + 1,
                                             !.tries = IF next \in SendPcs THEN @ + 1 ELSE @]]
    /\ UNCHANGED << runVarsE, fnNew, env, bck, ckCtx, acts, panics, crashed >>

\* select { case <-ctx.Done(): return "the function New has failed" }
SelectDone ==
    /\ pc = "select"
    /\ "ctx.Done" \in ReadyCases(g[idx].pc, ckCtx)
    /\ yerr' = CtxErr("the function New has failed")
    /\ pc' = "yReturn"
    /\ UNCHANGED << runVarsE, fnNew, env, bck, ckCtx, g, acts, panics, crashed >>

\* The deferred functions run as yaegiMiddlewareCheck and yaegiCheck return
\* or unwind: cancel(), tearDown(), then the recover of yaegiCheck.
YaegiCheckReturn ==
    /\ pc = "yReturn"
    /\ ckCtx' = IF ckCtx = "active" THEN "done" ELSE ckCtx
    /\ env' = TearDownEnv(env, bck)
    /\ bck' = EmptyEnv
    /\ yerr' = RecoverYaegi(yerr)
    /\ crashed' = (crashed \/ RecoverYaegi(yerr).kind = "panicking")
    /\ pc' = IF RecoverYaegi(yerr).kind = "panicking" THEN "crashed" ELSE "yaegiReturned"
    /\ UNCHANGED << runVarsE, fnNew, g, acts, panics >>

\* --------------------------------------------------------- process and Run

\* A step of process ends: the step is logged with its outcome.
Logged(name, ok) == Append(steps, [name |-> name, ok |-> ok])

\* process returns an error: Run logs it and, unless it wraps a GitHub error
\* response with a status of 500 or more, will create an issue.
ProcessFails(name, kind) ==
    /\ steps' = Logged(name, FALSE)
    /\ procRes' = [procRes EXCEPT ![idx] = kind]
    /\ pc' = "processFailed"

\* The outcomes of a step that calls the GitHub API with the context of the
\* run: a cancelled context fails the call with the context's error.
ApiOutcomes == IF runCtx = "cancelled" THEN {"err"} ELSE {"ok", "err", "err5xx"}

\* The outcomes of a step that makes no GitHub call.
LocalOutcomes == {"ok", "err"}

\* A process that logs the error of a step and goes on.
PlainStepGoingOn(at, next, outcomes) ==
    /\ pc = at
    /\ \E o \in outcomes : steps' = Logged(at, o = "ok") /\ pc' = next /\ procRes' = procRes
    /\ lookup' = NoLookup
    /\ UNCHANGED << call, runCtx, runRes, idx, manifest, moduleName, fnNew, openIssues, existing,
                    pgCalls, issues, env, envAtCall, bck, ckCtx, g, yerr, acts, panics, crashed >>

\* A step of process with nothing to remember but its outcome.
PlainStep(at, next, outcomes) ==
    /\ pc = at
    /\ \E o \in outcomes :
         IF o = "ok"
         THEN steps' = Logged(at, TRUE) /\ pc' = next /\ procRes' = procRes
         ELSE ProcessFails(at, o)
    /\ lookup' = NoLookup
    /\ UNCHANGED << call, runCtx, runRes, idx, manifest, moduleName, fnNew, openIssues, existing,
                    pgCalls, issues, env, envAtCall, bck, ckCtx, g, yerr, acts, panics, crashed >>

\* Run up to its loop: searchReposWithExistingIssue, then search.
RunStart ==
    /\ pc = "run"
    /\ \E o \in ApiOutcomes :
         IF o = "ok"
         THEN /\ existing' = openIssues /\ pc' = "loop" /\ idx' = 1 /\ runRes' = runRes
         ELSE /\ existing' = existing /\ pc' = "done" /\ idx' = idx /\ runRes' = "err"
    /\ UNCHANGED << call, lookup, runCtx, manifest, moduleName, fnNew, steps, openIssues, procRes, pgCalls,
                    issues, env, envAtCall, bck, ckCtx, g, yerr, acts, panics, crashed >>

\* A loop that stays on the repository it has just handled.
NextRepositoryStaying ==
    /\ pc' = "loop"
    /\ idx' = idx
    /\ manifest' = NoManifest
    /\ moduleName' = ""
    /\ fnNew' = NoSignature
    /\ steps' = <<>>
    /\ acts' = {}
    /\ panics' = {}
    /\ yerr' = NoErr
    /\ ckCtx' = "none"
    /\ lookup' = NoLookup

\* The iteration of the loop of Run ends: its locals and those of the calls
\* it made are gone, the loop variable moves to the next repository.
NextRepository ==
    /\ pc' = "loop"
    /\ idx' = idx + 1
    /\ manifest' = NoManifest
    /\ moduleName' = ""
    /\ fnNew' = NoSignature
    /\ steps' = <<>>
    /\ acts' = {}
    /\ panics' = {}
    /\ yerr' = NoErr
    /\ ckCtx' = "none"
    /\ lookup' = NoLookup

\* An isSkipped that knows the blacklist only.
isSkippedBlacklistOnly(r) == RepoFullName(r) \in blacklist

\* isSkipped: the repository is blacklisted or has an open analyzer issue.
isSkipped(r) == RepoFullName(r) \in blacklist \/ r \in existing

\* The head of the loop of Run: the next repository, if any, is skipped or
\* handed to process.
LoopNext ==
    /\ pc = "loop"
    /\ IF idx > NumRepos
       THEN pc' = "done" /\ runRes' = "nil" /\ idx' = idx
       ELSE IF isSkipped(idx)
       THEN pc' = "loop" /\ runRes' = runRes /\ idx' = idx + 1
       ELSE pc' = "getLatestTag" /\ runRes' = runRes /\ idx' = idx
    /\ UNCHANGED << call, lookup, runCtx, manifest, moduleName, fnNew, steps, openIssues, existing, procRes,
                    pgCalls, issues, env, envAtCall, bck, ckCtx, g, yerr, acts, panics, crashed >>

GetLatestTag == PlainStep("getLatestTag", "loadReadme", ApiOutcomes)

LoadReadme == PlainStep("loadReadme", "loadManifest", ApiOutcomes)

\* loadManifestContent on the type of the manifest: anything but middleware
\* and provider is an unsupported type.
ManifestTypeOK(m) == m.Type \in {typeMiddleware, typeProvider}

\* loadManifest: the manifest file is fetched and validated.
LoadManifest ==
    /\ pc = "loadManifest"
    /\ \E o \in ApiOutcomes, m \in Manifests :
         IF o = "ok" /\ ManifestTypeOK(m)
         THEN /\ manifest' = m /\ steps' = Logged("loadManifest", TRUE)
              /\ pc' = "verify" /\ procRes' = procRes
         ELSE /\ manifest' = manifest
              /\ ProcessFails("loadManifest", IF o = "ok" THEN "err" ELSE o)
    /\ UNCHANGED << call, lookup, runCtx, runRes, idx, moduleName, fnNew, openIssues, existing, pgCalls, issues,
                    env, envAtCall, bck, ckCtx, g, yerr, acts, panics, crashed >>

\* A process that knows the interpreted path only.
DispatchInterpreted(m) == "verifyYaegiPlugin"

\* The verifier process hands the manifest to.
Dispatch(m) == IF m.Runtime = runtimeWasm THEN "verifyWASMPlugin" ELSE "verifyYaegiPlugin"

\* process selects the verification path by manifest.Runtime.
Verify ==
    /\ pc = "verify"
    /\ steps' = Logged(Dispatch(manifest), TRUE)
    /\ pc' = IF Dispatch(manifest) = "verifyWASMPlugin" THEN "wasmGetByName" ELSE "getModuleInfo"
    /\ moduleName' = IF Dispatch(manifest) = "verifyWASMPlugin"
                     THEN GithubPath(RepoFullName(idx)) ELSE moduleName
    /\ UNCHANGED << call, lookup, runCtx, runRes, idx, manifest, fnNew, openIssues, existing, procRes, pgCalls,
                    issues, env, envAtCall, bck, ckCtx, g, yerr, acts, panics, crashed >>

\* verifyYaegiPlugin: getModuleInfo reads go.mod at the latest version.
GetModuleInfo ==
    /\ pc = "getModuleInfo"
    /\ \E o \in ApiOutcomes, m \in {GithubPath(RepoFullName(idx)), "github.com/evil/fork"} :
         IF o = "ok"
         THEN /\ moduleName' = m /\ steps' = Logged("getModuleInfo", TRUE)
              /\ pc' = "GetByName" /\ procRes' = procRes
         ELSE /\ moduleName' = moduleName /\ ProcessFails("getModuleInfo", o)
    /\ UNCHANGED << call, lookup, runCtx, runRes, idx, manifest, fnNew, openIssues, existing, pgCalls, issues,
                    env, envAtCall, bck, ckCtx, g, yerr, acts, panics, crashed >>

\* What pg.GetByName may answer: a record whose LatestVersion and Stars are
\* the observed ones, a record that differs, a 404, another error.
GetByNameAnswers == IF runCtx = "cancelled" THEN {"error"} ELSE {"same", "differs", "404", "error"}

\* The tags a repository may carry and the star counts it may have.
Versions == {"v1.0.0", "v1.1.0"}

StarCounts == {7, 8}

\* The catalog records, as far as the short-circuit reads them.
Plugins == [LatestVersion : Versions, Stars : StarCounts]

\* What s.pg.GetByName(ctx, pluginName) may return as (prev, err): a record,
\* nothing at all, a 404 or another error; only an error once the context is
\* cancelled.
Lookups ==
    IF runCtx = "cancelled"
    THEN [prev : {NoPlugin}, err : {"error"}]
    ELSE [prev : Plugins \cup {NoPlugin}, err : {"nil"}]
         \cup [prev : {NoPlugin}, err : {"404", "error"}]

\* A short-circuit that trusts the tag alone.
UpToDateByVersion(prev, err, latestVersion, stars) ==
    err = "nil" /\ prev # NoPlugin /\ prev.LatestVersion = latestVersion

\* The short-circuit of both verifiers: err == nil && prev != nil &&
\* prev.LatestVersion == latestVersion && prev.Stars == stars.
UpToDate(prev, err, latestVersion, stars) ==
    err = "nil" /\ prev # NoPlugin /\ prev.LatestVersion = latestVersion /\ prev.Stars = stars

\* prev, err := s.pg.GetByName(ctx, pluginName), and the short-circuit on
\* the latest tag and the star count observed for the repository.
SkipCheck(at, next) ==
    /\ pc = at
    /\ pgCalls' = [pgCalls EXCEPT ![idx] = Append(@, "GetByName")]
    /\ \E l \in Lookups, v \in Versions, n \in StarCounts :
         /\ lookup' = [prev |-> l.prev, err |-> l.err, latestVersion |-> v, stars |-> n]
         /\ IF UpToDate(l.prev, l.err, v, n)
            THEN /\ steps' = Logged("upToDate", TRUE)
                 /\ procRes' = [procRes EXCEPT ![idx] = "skip"]
                 /\ pc' = "store"
            ELSE /\ steps' = Logged("GetByName", TRUE) /\ procRes' = procRes /\ pc' = next
    /\ UNCHANGED << call, runCtx, runRes, idx, manifest, moduleName, fnNew, openIssues, existing, issues,
                    env, envAtCall, bck, ckCtx, g, yerr, acts, panics, crashed >>

YaegiGetByName == SkipCheck("GetByName", "checkModuleFile")

CheckModuleFile == PlainStep("checkModuleFile", "checkRepoName", LocalOutcomes)

\* checkRepoName on the module path: it must start with github.com/<owner>/<repo>;
\* the import path of the manifest may fail the check as well.
CheckRepoName ==
    PlainStep("checkRepoName", "getVersions",
              IF moduleName = GithubPath(RepoFullName(idx)) THEN LocalOutcomes ELSE {"err"})

GetVersions == PlainStep("getVersions", "MkdirTemp", ApiOutcomes)

MkdirTemp == PlainStep("MkdirTemp", "sources.Get", LocalOutcomes)

SourcesGet == PlainStep("sources.Get", "yaegiCheck", ApiOutcomes \ {"err5xx"})

\* verifyYaegiPlugin after s.yaegiCheck: an error fails process, success
\* returns the plugin name and its versions.
YaegiChecked ==
    /\ pc = "yaegiReturned"
    /\ IF yerr.kind = "nil"
       THEN steps' = Logged("yaegiCheck", TRUE) /\ pc' = "createSnippets" /\ procRes' = procRes
       ELSE ProcessFails("yaegiCheck", "err")
    /\ UNCHANGED << call, lookup, runCtx, runRes, idx, manifest, moduleName, fnNew, openIssues, existing,
                    pgCalls, issues, env, envAtCall, bck, ckCtx, g, yerr, acts, panics, crashed >>

WasmGetByName == SkipCheck("wasmGetByName", "wasmGetVersions")

WasmGetVersions == PlainStep("wasmGetVersions", "verifyRelease", ApiOutcomes)

\* verifyRelease: the release archive is fetched and the WASM guest loaded.
VerifyRelease ==
    /\ pc = "verifyRelease"
    /\ acts' = acts \cup {"wasm"}
    /\ \E o \in ApiOutcomes :
         IF o = "ok"
         THEN steps' = Logged("verifyRelease", TRUE) /\ pc' = "createSnippets" /\ procRes' = procRes
         ELSE ProcessFails("verifyRelease", o)
    /\ UNCHANGED << call, lookup, runCtx, runRes, idx, manifest, moduleName, fnNew, openIssues, existing,
                    pgCalls, issues, env, envAtCall, bck, ckCtx, g, yerr, panics, crashed >>

CreateSnippets == PlainStep("createSnippets", "record", LocalOutcomes)

\* process returns the assembled plugin record.
Record ==
    /\ pc = "record"
    /\ steps' = Logged("record", TRUE)
    /\ procRes' = [procRes EXCEPT ![idx] = "rec"]
    /\ pc' = "store"
    /\ UNCHANGED << call, lookup, runCtx, runRes, idx, manifest, moduleName, fnNew, openIssues, existing,
                    pgCalls, issues, env, envAtCall, bck, ckCtx, g, yerr, acts, panics, crashed >>

\* Whether Run hands the result of process to store: it does when process
\* returned no error.
Stored(res) == res \in {"rec", "skip"}

\* A Run that reports every failure of process.
ReportedAlways(kind) == TRUE

\* Whether Run reports the error of process in an issue: not when it wraps a
\* github.ErrorResponse with a status of 500 or more.
Reported(kind) == kind # "err5xx"

\* Run after a failed process: no issue for a GitHub error response of
\* status 500 or more, else Issues.Create, whose error is only logged.
ProcessFailed ==
    /\ pc = "processFailed"
    /\ ~Stored(procRes[idx])
    /\ IF ~Reported(procRes[idx])
       THEN issues' = issues /\ openIssues' = openIssues
       ELSE /\ issues' = [issues EXCEPT ![idx] = @ + 1]
            /\ \E created \in (IF runCtx = "cancelled" THEN {FALSE} ELSE BOOLEAN) :
                 openIssues' = IF created THEN openIssues \cup {idx} ELSE openIssues
    /\ NextRepository
    /\ UNCHANGED << call, runCtx, runRes, existing, procRes, pgCalls, env, envAtCall, bck, g, crashed >>

\* A store without its check of a nil record.
StoreCallsNoNilCheck(res, answer) ==
    CASE answer = "404"     -> <<"GetByName", "Create">>
      [] answer = "error"   -> <<"GetByName">>
      [] answer = "same"    -> <<"GetByName">>
      [] answer = "differs" -> <<"GetByName", "Update">>

\* The catalog calls of store for what process returned and what GetByName
\* answers: none for a nil record; Create after a 404; nothing more after
\* another error or for an unchanged record; Update for a changed one.
StoreCalls(res, answer) ==
    IF res # "rec" THEN <<>>
    ELSE CASE answer = "404"     -> <<"GetByName", "Create">>
           [] answer = "error"   -> <<"GetByName">>
           [] answer = "same"    -> <<"GetByName">>
           [] answer = "differs" -> <<"GetByName", "Update">>

\* Run calls store with the result of process and goes on to the next
\* repository, whatever store returns.
Store ==
    /\ pc = "store"
    /\ Stored(procRes[idx])
    /\ \E a \in GetByNameAnswers :
         pgCalls' = [pgCalls EXCEPT ![idx] = @ \o StoreCalls(procRes[idx], a)]
    /\ NextRepository
    /\ UNCHANGED << call, runCtx, runRes, openIssues, existing, procRes, issues, env, envAtCall, bck,
                    g, crashed >>

\* The caller of Run cancels its context.
CancelRun ==
    /\ runCtx = "active"
    /\ pc \notin {"done", "crashed"}
    /\ runCtx' = "cancelled"
    /\ UNCHANGED << call, lookup, runRes, pc, idx, manifest, moduleName, fnNew, steps, openIssues, existing,
                    procRes, pgCalls, issues, env, envAtCall, bck, ckCtx, g, yerr, acts, panics,
                    crashed >>

\* The environment piceus runs in: its GitHub token and a search path.
RunEnv ==
    [k \in { <<"G","I","T","H","U","B","_","T","O","K","E","N">>, <<"P","A","T","H">> }
       |-> <<"s","3","c","r","3","t">>]

\* ---------------------------------------- yaegiCheck called on its own

\* What Run, process and the check have not touched yet.
FreshRun ==
    /\ runCtx = "active"
    /\ runRes = "running"
    /\ steps = <<>>
    /\ existing = {}
    /\ procRes = [r \in Repos |-> "none"]
    /\ pgCalls = [r \in Repos |-> <<>>]
    /\ issues = [r \in Repos |-> 0]
    /\ g = [r \in Repos |-> NoGoroutine]
    /\ yerr = NoErr
    /\ panics = {}
    /\ crashed = FALSE
    /\ lookup = NoLookup

\* No interpreted-code check has begun.
FreshCheck ==
    /\ fnNew = NoSignature
    /\ bck = EmptyEnv
    /\ ckCtx = "none"
    /\ acts = {}

\* s.yaegiCheck(manifest, goPath, moduleName) as TestUnsafe calls it: any
\* manifest of the interpreted runtime, any module, any environment.
InitYaegi ==
    /\ FreshRun
    /\ call = NoCall
    /\ FreshCheck
    /\ pc = "yaegiCheck"
    /\ idx = 1
    /\ manifest \in {m \in Manifests : m.Runtime = ""}
    /\ moduleName \in ModuleNames
    /\ env \in InitialEnvs
    /\ envAtCall = env
    /\ openIssues = {}

YaegiStep ==
    \/ YaegiCheckEnter
    \/ MiddlewareCheckStart
    \/ Deadline
    \/ ImportStart
    \/ ImportFinish
    \/ ImportTimeout
    \/ CreateConfigStart
    \/ CreateConfigFinish
    \/ CreateConfigTimeout
    \/ DecodeConfig
    \/ EvalNew
    \/ CheckSignature
    \/ SkipNew
    \/ CallNew
    \/ SelectRecv
    \/ SelectDone
    \/ YaegiCheckReturn

GoroutineStep == \E r \in Repos : NewStart(r) \/ NewReturns(r) \/ NewPanics(r)

NextYaegi == YaegiStep \/ GoroutineStep

SpecYaegi == InitYaegi /\ [][NextYaegi]_vars

\* --------------------------------------------------------------- the run

Init ==
    /\ FreshRun
    /\ call = NoCall
    /\ FreshCheck
    /\ pc = "run"
    /\ idx = 0
    /\ manifest = NoManifest
    /\ moduleName = ""
    /\ env = RunEnv
    /\ envAtCall = RunEnv
    /\ openIssues \in SUBSET Repos

RunStep ==
    \/ RunStart
    \/ LoopNext
    \/ GetLatestTag
    \/ LoadReadme
    \/ LoadManifest
    \/ Verify
    \/ GetModuleInfo
    \/ YaegiGetByName
    \/ CheckModuleFile
    \/ CheckRepoName
    \/ GetVersions
    \/ MkdirTemp
    \/ SourcesGet
    \/ YaegiChecked
    \/ WasmGetByName
    \/ WasmGetVersions
    \/ VerifyRelease
    \/ CreateSnippets
    \/ Record
    \/ ProcessFailed
    \/ Store
    \/ CancelRun

Next == RunStep \/ YaegiStep \/ GoroutineStep

Spec == Init /\ [][Next]_vars

\* ---------------------------------------------- the signature check alone

\* yaegiMiddlewareCheck just before checkFunctionNewSignature, for any
\* function type the plugin may export as New.
InitSig ==
    /\ FreshRun
    /\ call = NoCall
    /\ pc = "sigCheck"
    /\ idx = 1
    /\ manifest = [Type |-> typeMiddleware, Runtime |-> "", UseUnsafe |-> FALSE]
    /\ moduleName = "github.com/acme/demo"
    /\ fnNew \in Signatures
    /\ env = DropEnv(RunEnv)
    /\ bck = BackupEnv(RunEnv)
    /\ envAtCall = RunEnv
    /\ openIssues = {}
    /\ ckCtx = "active"
    /\ acts = {"interp", "import", "CreateConfig"}

NextSig == CheckSignature

SpecSig == InitSig /\ [][NextSig]_vars

\* ------------------------------------------------- fairness of the check

\* The steps of the goroutine that runs yaegiCheck which do not wait for
\* plugin code to finish.
MainStep ==
    \/ YaegiCheckEnter
    \/ MiddlewareCheckStart
    \/ ImportStart
    \/ ImportTimeout
    \/ CreateConfigStart
    \/ CreateConfigTimeout
    \/ DecodeConfig
    \/ EvalNew
    \/ CheckSignature
    \/ SkipNew
    \/ CallNew
    \/ SelectRecv
    \/ SelectDone
    \/ YaegiCheckReturn

\* The timer of the check's context fires and the goroutine of yaegiCheck is
\* scheduled; nothing makes plugin code finish.
InitLive ==
    /\ FreshRun
    /\ call = NoCall
    /\ FreshCheck
    /\ pc = "yaegiCheck"
    /\ idx = 1
    /\ manifest \in {m \in Manifests : m.Runtime = ""}
    /\ moduleName \in ModuleNames
    /\ env = RunEnv
    /\ envAtCall = env
    /\ openIssues = {}

LiveYaegi == InitLive /\ [][NextYaegi]_vars /\ WF_vars(Deadline) /\ WF_vars(MainStep)

\* ------------------------------------------------------- one run after another

\* The program is started again after a run that returned: nothing of the
\* previous run is left but the issues on GitHub.
RunAgain ==
    /\ pc = "done"
    /\ pc' = "run"
    /\ idx' = 0
    /\ runCtx' = "active"
    /\ runRes' = "running"
    /\ steps' = <<>>
    /\ existing' = {}
    /\ procRes' = [r \in Repos |-> "none"]
    /\ pgCalls' = [r \in Repos |-> <<>>]
    /\ issues' = [r \in Repos |-> 0]
    /\ g' = [r \in Repos |-> NoGoroutine]
    /\ UNCHANGED << call, lookup, manifest, moduleName, fnNew, openIssues, env, envAtCall, bck, ckCtx,
                    yerr, acts, panics, crashed >>

\* The owner of a repository closes the analyzer issue, between two runs or
\* while Run is between two repositories.
CloseIssue ==
    /\ pc \in {"done", "loop"}
    /\ \E r \in openIssues : openIssues' = openIssues \ {r}
    /\ UNCHANGED << call, lookup, runCtx, runRes, pc, idx, manifest, moduleName, fnNew, steps,
                    existing, procRes, pgCalls, issues, env, envAtCall, bck, ckCtx, g, yerr, acts,
                    panics, crashed >>

InitRuns == Init /\ openIssues = {}

NextRuns == Next \/ RunAgain \/ CloseIssue

SpecRuns == InitRuns /\ [][NextRuns]_vars

\* ------------------------------------------------ the consistency checks

\* The owners and names of repositories, and what a path may add to
\* github.com/<owner>/<name>.
Owners == { <<"a", "c", "m", "e">>, <<"e", "v", "i", "l">> }

RepoNames == { <<"d", "e", "m", "o">>, <<"d", "e", "m", "o", "e", "v", "i", "l">>, <<"m", "y", "-", "p", "l", "u", "g", "i", "n">>, <<"m", "y", "_", "p", "l", "u", "g", "i", "n">> }

PathSuffixes == { <<>>, <<"/", "v", "2">> }

\* repository.GetFullName()
FullNames == { o \o <<"/">> \o r : o \in Owners, r \in {<<"d", "e", "m", "o">>, <<"m", "y", "-", "p", "l", "u", "g", "i", "n">>} }

\* The module paths and import paths a plugin may declare.
Paths ==
    { PathJoin(GithubCom, o \o <<"/">> \o r) \o x : o \in Owners, r \in RepoNames, x \in PathSuffixes }

\* The module paths a go.mod may require.
RequirePaths ==
    ForbiddenPaths \cup
    { <<"g", "i", "t", "h", "u", "b", ".", "c", "o", "m", "/", "t", "r", "a", "e", "f", "i", "k", "/", "t", "r", "a", "e", "f", "i", "k", "/", "v", "2">>,
      <<"g", "i", "t", "h", "u", "b", ".", "c", "o", "m", "/", "t", "r", "a", "e", "f", "i", "k", "/", "p", "a", "e", "r", "s", "e", "r">>,
      <<"g", "i", "t", "h", "u", "b", ".", "c", "o", "m", "/", "s", "t", "r", "e", "t", "c", "h", "r", "/", "t", "e", "s", "t", "i", "f", "y">> }

\* The calls of checkRepoName and of checkModuleFile.
CheckRepoNameCalls ==
    [fn : {"checkRepoName"}, args : [fullName : FullNames, module : Paths, import : Paths],
     res : {"pending"}]

CheckModuleFileCalls ==
    [fn : {"checkModuleFile"},
     args : [requires : SeqsUpTo(RequirePaths, MaxRequires), module : Paths, import : Paths],
     res : {"pending"}]

\* Nothing but the call is going on.
Idle ==
    /\ FreshRun
    /\ FreshCheck
    /\ pc = "idle"
    /\ idx = 0
    /\ manifest = NoManifest
    /\ moduleName = ""
    /\ env = RunEnv
    /\ envAtCall = RunEnv
    /\ openIssues = {}

\* The frame of a function called on its own.
OnlyCall ==
    UNCHANGED << runCtx, runRes, pc, idx, manifest, moduleName, fnNew, steps, openIssues, existing,
                 procRes, pgCalls, issues, env, envAtCall, bck, ckCtx, g, yerr, acts, panics,
                 crashed, lookup >>

InitNames ==
    /\ Idle
    /\ call \in CheckRepoNameCalls \cup CheckModuleFileCalls

CallCheckRepoName ==
    /\ call.fn = "checkRepoName"
    /\ call.res = "pending"
    /\ call' = [call EXCEPT !.res = checkRepoName(call.args.fullName, call.args.module,
                                                  call.args.import)]
    /\ OnlyCall

CallCheckModuleFile ==
    /\ call.fn = "checkModuleFile"
    /\ call.res = "pending"
    /\ call' = [call EXCEPT !.res = checkModuleFile(call.args.requires, call.args.module,
                                                    call.args.import)]
    /\ OnlyCall

NextNames == CallCheckRepoName \/ CallCheckModuleFile

SpecNames == InitNames /\ [][NextNames]_vars

\* ------------------------------------------------------ the manifest file

\* The content of a manifest file: the keys loadManifestContent reads, the
\* key runtime, and the shape of testData ("absent", an empty mapping, a
\* mapping with entries, or a literal string).
TestDataShapes == {"absent", "empty", "map", "string"}

Contents ==
    [type : {typeMiddleware, typeProvider, "bogus", ""},
     runtime : {"", runtimeWasm},
     import : {"", "github.com/acme/demo"},
     displayName : {"", "Plugin Example"},
     summary : {"", "Simple example plugin."},
     testData : TestDataShapes]

\* Manifest{}
ZeroManifest ==
    [Type |-> "", Import |-> "", DisplayName |-> "", Summary |-> "", TestData |-> "absent"]

\* yaml.Unmarshal into a Manifest: the struct has no field for the key
\* runtime, and a literal string cannot become the map TestData.
Unmarshal(content) ==
    [Type |-> content.type, Import |-> content.import, DisplayName |-> content.displayName,
     Summary |-> content.summary, TestData |-> content.testData]

\* A loadManifestContent without the check of the summary.
loadManifestContentNoSummary(content, decodes) ==
    LET m == Unmarshal(content)
        fails(e) == [manifest |-> ZeroManifest, err |-> e]
    IN  IF content.testData = "string" THEN fails("failed to read manifest content")
        ELSE IF m.TestData = "map" /\ ~decodes THEN fails("failed to read testdata from manifest")
        ELSE IF m.Type \notin {typeMiddleware, typeProvider} THEN fails("unsupported type")
        ELSE IF m.Import = "" THEN fails("missing import")
        ELSE IF m.DisplayName = "" THEN fails("missing DisplayName")
        ELSE IF m.TestData = "absent" THEN fails("missing TestData")
        ELSE [manifest |-> m, err |-> ""]

\* loadManifestContent: the manifest and the error it returns ("" for nil).
\* decodes is whether pfile.DecodeContent accepts the content.
loadManifestContent(content, decodes) ==
    LET m == Unmarshal(content)
        fails(e) == [manifest |-> ZeroManifest, err |-> e]
    IN  IF content.testData = "string" THEN fails("failed to read manifest content")
        ELSE IF m.TestData = "map" /\ ~decodes THEN fails("failed to read testdata from manifest")
        ELSE IF m.Type \notin {typeMiddleware, typeProvider} THEN fails("unsupported type")
        ELSE IF m.Import = "" THEN fails("missing import")
        ELSE IF m.DisplayName = "" THEN fails("missing DisplayName")
        ELSE IF m.Summary = "" THEN fails("missing Summary")
        ELSE IF m.TestData = "absent" THEN fails("missing TestData")
        ELSE [manifest |-> m, err |-> ""]

LoadManifestContentCalls ==
    [fn : {"loadManifestContent"}, args : [content : Contents, decodes : BOOLEAN],
     res : {[manifest |-> ZeroManifest, err |-> "pending"]}]

InitManifest ==
    /\ Idle
    /\ call \in LoadManifestContentCalls

CallLoadManifestContent ==
    /\ call.fn = "loadManifestContent"
    /\ call.res.err = "pending"
    /\ call' = [call EXCEPT !.res = loadManifestContent(call.args.content, call.args.decodes)]
    /\ OnlyCall

NextManifest == CallLoadManifestContent

SpecManifest == InitManifest /\ [][NextManifest]_vars

\* ---------------------------------------------------- the release archive

\* The elements of a path between its "/" separators.
RECURSIVE Split(_)
Split(p) ==
    IF \A i \in 1..Len(p) : p[i] # "/" THEN << p >>
    ELSE LET k == CHOOSE i \in 1..Len(p) : p[i] = "/" /\ \A j \in 1..(i - 1) : p[j] # "/"
         IN  << SubSeq(p, 1, k - 1) >> \o Split(SubSeq(p, k + 1, Len(p)))

\* How deep below the root the first n elements of a path lead; -1 once
\* they have led above it (what filepath.Clean leaves as a leading "..").
RECURSIVE Depth(_, _)
Depth(els, n) ==
    IF n = 0 THEN 0
    ELSE LET d == Depth(els, n - 1)
         IN  IF d < 0 THEN d
             ELSE IF els[n] = <<".", ".">> THEN d - 1
             ELSE IF els[n] = <<".">> \/ els[n] = <<>> THEN d
             ELSE d + 1

\* filepath.IsLocal: not empty, not absolute, and not leading out of the
\* directory it is evaluated in.
IsLocal(p) ==
    /\ p # <<>>
    /\ p[1] # "/"
    /\ Depth(Split(p), Len(Split(p))) >= 0

\* filepath.Ext: the suffix of the last element from its last ".".
Ext(name) ==
    LET dots == {i \in 1..Len(name) : name[i] = "." /\ \A j \in (i + 1)..Len(name) : name[j] # "/"}
    IN  IF dots = {} THEN <<>>
        ELSE SubSeq(name, CHOOSE i \in dots : \A j \in dots : j <= i, Len(name))

wasmFile == <<"p", "l", "u", "g", "i", "n", ".", "w", "a", "s", "m">>

manifestFile == <<".", "t", "r", "a", "e", "f", "i", "k", ".", "y", "m", "l">>

\* The error values of verifyRelease and verifyZip: the message, the error
\* it wraps and the file it names.
NilError == [msg |-> "", wrapped |-> "", name |-> <<>>]

NewError(msg) == [msg |-> msg, wrapped |-> "", name |-> <<>>]

\* getWasmPath: the path and the error.
getWasmPath(m) ==
    LET wasmPath == IF m.WasmPath = <<>> THEN wasmFile ELSE m.WasmPath
    IN  IF ~IsLocal(wasmPath)
        THEN [path |-> <<>>, err |-> NewError("wasmPath must be a local path")]
        ELSE [path |-> wasmPath, err |-> NilError]

\* verifyZip: the error it returns and what it has done by then.  fault is
\* the call that fails, files the names of the entries of the archive.
verifyZip(m, files, fault) ==
    LET wp == getWasmPath(m)
        opened == << "download", "readAll", "zipReader" >>
    IN  IF fault = "download"
        THEN [err |-> NewError("failed to download asset"), effects |-> << "download" >>]
        ELSE IF fault = "read"
        THEN [err |-> NewError("failed to read asset body"), effects |-> << "download", "readAll" >>]
        ELSE IF fault = "unzip"
        THEN [err |-> NewError("failed to unzip archive"), effects |-> opened]
        ELSE IF wp.err # NilError
        THEN [err |-> wp.err, effects |-> opened]
        ELSE IF wp.path \notin files
        THEN [err |-> [msg |-> "failed to find", wrapped |-> "", name |-> wp.path], effects |-> opened]
        ELSE IF manifestFile \notin files
        THEN [err |-> [msg |-> "failed to find", wrapped |-> "", name |-> manifestFile],
              effects |-> opened]
        ELSE IF m.Type = typeMiddleware
        THEN [err |-> IF fault = "guest" THEN NewError("failed to check wasm middleware")
                      ELSE NilError,
              effects |-> Append(opened, "checkWasmMiddleware")]
        ELSE IF m.Type = typeProvider
        THEN [err |-> NilError, effects |-> opened]
        ELSE [err |-> NewError("unsupported type"), effects |-> opened]

\* The assets of a release that verifyRelease keeps.
ZipAssets(assets) == {i \in 1..Len(assets) : Ext(assets[i]) = <<".", "z", "i", "p">>}

\* A verifyRelease that is content with the first archive of several.
verifyReleaseFirstZip(m, assets, files, fault) ==
    IF fault = "release"
    THEN [err |-> NewError("failed to get latest release"), effects |-> << >>]
    ELSE IF ZipAssets(assets) = {}
    THEN [err |-> NewError("zip archive not found"), effects |-> << >>]
    ELSE LET z == verifyZip(m, files, fault)
         IN  IF z.err # NilError
             THEN [err |-> [msg |-> "invalid zip archive content", wrapped |-> z.err.msg,
                            name |-> z.err.name],
                   effects |-> z.effects]
             ELSE z

\* verifyRelease: the error it returns and what it has done by then.
verifyRelease(m, assets, files, fault) ==
    IF fault = "release"
    THEN [err |-> NewError("failed to get latest release"), effects |-> << >>]
    ELSE IF Cardinality(ZipAssets(assets)) > 1
    THEN [err |-> NewError("too many zip archive"), effects |-> << >>]
    ELSE IF Cardinality(ZipAssets(assets)) = 0
    THEN [err |-> NewError("zip archive not found"), effects |-> << >>]
    ELSE LET z == verifyZip(m, files, fault)
         IN  IF z.err # NilError
             THEN [err |-> [msg |-> "invalid zip archive content", wrapped |-> z.err.msg,
                            name |-> z.err.name],
                   effects |-> z.effects]
             ELSE z

\* The names of the assets of a release, the entries of an archive, the
\* wasmPath of a manifest, and the call that fails, if one does.
AssetNames == { <<"p", "l", "u", "g", "i", "n", ".", "z", "i", "p">>, <<"o", "t", "h", "e", "r", ".", "z", "i", "p">>, <<"p", "l", "u", "g", "i", "n", ".", "z", "i", "p", ".", "s", "h", "a", "2", "5", "6">>, <<"n", "o", "t", "e", "s">> }

MaxAssets == 2

EntryNames == { wasmFile, manifestFile, <<"c", "u", "s", "t", "o", "m", ".", "w", "a", "s", "m">> }

WasmPaths == { <<>>, <<"c", "u", "s", "t", "o", "m", ".", "w", "a", "s", "m">>, <<".", ".", "/", "e", "v", "i", "l", ".", "w", "a", "s", "m">>, <<"/", "t", "m", "p", "/", "e", "v", "i", "l", ".", "w", "a", "s", "m">>, <<"a", "/", ".", ".", "/", "c", "u", "s", "t", "o", "m", ".", "w", "a", "s", "m">> }

Faults == {"none", "release", "download", "read", "unzip", "guest"}

WasmManifests == [Type : {typeMiddleware, typeProvider, "bogus"}, WasmPath : WasmPaths]

VerifyReleaseCalls ==
    [fn : {"verifyRelease"},
     args : [manifest : WasmManifests, assets : SeqsUpTo(AssetNames, MaxAssets),
             files : SUBSET EntryNames, fault : Faults],
     res : {[err |-> NewError("pending"), effects |-> << >>]}]

InitRelease ==
    /\ Idle
    /\ call \in VerifyReleaseCalls

CallVerifyRelease ==
    /\ call.fn = "verifyRelease"
    /\ call.res.err = NewError("pending")
    /\ call' = [call EXCEPT !.res = verifyRelease(call.args.manifest, call.args.assets,
                                                  call.args.files, call.args.fault)]
    /\ OnlyCall

NextRelease == CallVerifyRelease

SpecRelease == InitRelease /\ [][NextRelease]_vars

\* ------------------------------------------------------------------- store

\* The identifiers and creation times a catalog record may carry; "" is the
\* zero value of a record process has assembled.
RecordIDs == {"", "aaaa"}

CreationTimes == {"", "t1"}

\* plugin.Plugin: ID, CreatedAt, and of the other fields those a new tag or
\* a new star changes.
Records ==
    [ID : RecordIDs, CreatedAt : CreationTimes, LatestVersion : Versions, Stars : StarCounts]

\* cmp.Equal(data, prev, cmpopts.IgnoreFields(plugin.Plugin{}, "ID", "CreatedAt"))
EqualIgnoringIDCreatedAt(a, b) == a.LatestVersion = b.LatestVersion /\ a.Stars = b.Stars

\* What store returns and the catalog calls it has made.
StoreResult(calls, err) == [calls |-> calls, err |-> err]

\* A store that creates the record after any error of GetByName.
storeCreateOnAnyError(data, look, fault) ==
    LET get == [op |-> "GetByName", arg |-> NoPlugin]
    IN  IF data = NoPlugin THEN StoreResult(<< >>, "")
        ELSE IF look.err # "nil"
        THEN StoreResult(<< get, [op |-> "Create", arg |-> data] >>,
                         IF fault = "create" THEN "create failed" ELSE "")
        ELSE IF EqualIgnoringIDCreatedAt(data, look.prev) THEN StoreResult(<< get >>, "")
        ELSE StoreResult(<< get, [op |-> "Update",
                                  arg |-> [data EXCEPT !.ID = look.prev.ID,
                                                       !.CreatedAt = look.prev.CreatedAt]] >>,
                         IF fault = "update" THEN "update failed" ELSE "")

\* A store that compares every field of the two records.
storeCompareAll(data, look, fault) ==
    LET get == [op |-> "GetByName", arg |-> NoPlugin]
    IN  IF data = NoPlugin THEN StoreResult(<< >>, "")
        ELSE IF look.err = "404"
        THEN StoreResult(<< get, [op |-> "Create", arg |-> data] >>,
                         IF fault = "create" THEN "create failed" ELSE "")
        ELSE IF look.err # "nil" THEN StoreResult(<< get >>, "API error on")
        ELSE IF data = look.prev THEN StoreResult(<< get >>, "")
        ELSE StoreResult(<< get, [op |-> "Update",
                                  arg |-> [data EXCEPT !.ID = look.prev.ID,
                                                       !.CreatedAt = look.prev.CreatedAt]] >>,
                         IF fault = "update" THEN "update failed" ELSE "")

\* store(ctx, data) when GetByName answers look = (prev, err) and the call
\* named by fault, if it is made, fails.
store(data, look, fault) ==
    LET get == [op |-> "GetByName", arg |-> NoPlugin]
    IN  IF data = NoPlugin THEN StoreResult(<< >>, "")
        ELSE IF look.err = "404"
        THEN StoreResult(<< get, [op |-> "Create", arg |-> data] >>,
                         IF fault = "create" THEN "create failed" ELSE "")
        ELSE IF look.err # "nil" THEN StoreResult(<< get >>, "API error on")
        ELSE IF EqualIgnoringIDCreatedAt(data, look.prev) THEN StoreResult(<< get >>, "")
        ELSE StoreResult(<< get, [op |-> "Update",
                                  arg |-> [data EXCEPT !.ID = look.prev.ID,
                                                       !.CreatedAt = look.prev.CreatedAt]] >>,
                         IF fault = "update" THEN "update failed" ELSE "")

\* What GetByName answers to store: a record, a 404, an API error of another
\* status, an error of another kind.
StoreLookups ==
    [prev : Records, err : {"nil"}] \cup [prev : {NoPlugin}, err : {"404", "500", "error"}]

\* What GetByName answers for a catalog holding the record cat, or none.
Found(cat) == IF cat = NoPlugin THEN [prev |-> NoPlugin, err |-> "404"]
              ELSE [prev |-> cat, err |-> "nil"]

\* The catalog after a store that returned res: the record of a successful
\* Create or Update, with the ID and time the server gives a new record.
CatalogAfter(cat, res, id, t) ==
    IF res.err # "" \/ Len(res.calls) < 2 THEN cat
    ELSE IF res.calls[2].op = "Create"
    THEN [res.calls[2].arg EXCEPT !.ID = id, !.CreatedAt = t]
    ELSE res.calls[2].arg

NoStoreResult == StoreResult(<< >>, "pending")

\* store is called twice, the second time with data2, which is data but for
\* its ID and CreatedAt, against the catalog the first call left.
StoreCallPairs ==
    [fn : {"store"},
     args : [data : Records \cup {NoPlugin}, id2 : RecordIDs, t2 : CreationTimes,
             look : StoreLookups, fault : {"none", "create", "update"}],
     res : {[first |-> NoStoreResult, second |-> NoStoreResult, catalog |-> NoPlugin]}]

InitStore ==
    /\ Idle
    /\ call \in StoreCallPairs

StoreFirst ==
    /\ call.fn = "store"
    /\ call.res.first = NoStoreResult
    /\ LET res == store(call.args.data, call.args.look, call.args.fault)
       IN  \E id \in RecordIDs \ {""}, t \in CreationTimes \ {""} :
             call' = [call EXCEPT !.res.first = res,
                                  !.res.catalog = CatalogAfter(call.args.look.prev, res, id, t)]
    /\ OnlyCall

StoreSecond ==
    /\ call.fn = "store"
    /\ call.res.first # NoStoreResult
    /\ call.res.second = NoStoreResult
    /\ call.args.data # NoPlugin
    /\ LET data2 == [call.args.data EXCEPT !.ID = call.args.id2, !.CreatedAt = call.args.t2]
       IN  call' = [call EXCEPT !.res.second = store(data2, Found(call.res.catalog), "none")]
    /\ OnlyCall

NextStore == StoreFirst \/ StoreSecond

SpecStore == InitStore /\ [][NextStore]_vars

\* ------------------------------------------------------------ the issue body

\* issueContent before and after its %v; "^" stands for the back quote.
IssuePrefix ==
    << "T", "h", "e", " ", "p", "l", "u", "g", "i", "n", " ", "w", "a", "s", " ", "n",
       "o", "t", " ", "i", "m", "p", "o", "r", "t", "e", "d", " ", "i", "n", "t", "o",
       " ", "T", "r", "a", "e", "f", "i", "k", " ", "P", "l", "u", "g", "i", "n", " ",
       "C", "a", "t", "a", "l", "o", "g", ".", "\n", "\n", "C", "a", "u", "s", "e", ":",
       "\n", "^", "^", "^", "\n" >>

IssueSuffix ==
    << "\n", "^", "^", "^", "\n", "T", "r", "a", "e", "f", "i", "k", " ", "P", "l", "u",
       "g", "i", "n", " ", "A", "n", "a", "l", "y", "z", "e", "r", " ", "w", "i", "l",
       "l", " ", "r", "e", "s", "t", "a", "r", "t", " ", "w", "h", "e", "n", " ", "y",
       "o", "u", " ", "w", "i", "l", "l", " ", "c", "l", "o", "s", "e", " ", "t", "h",
       "i", "s", " ", "i", "s", "s", "u", "e", ".", "\n", "\n", "I", "f", " ", "y", "o",
       "u", " ", "b", "e", "l", "i", "e", "v", "e", " ", "t", "h", "e", "r", "e", " ",
       "i", "s", " ", "a", " ", "p", "r", "o", "b", "l", "e", "m", " ", "w", "i", "t",
       "h", " ", "t", "h", "e", " ", "A", "n", "a", "l", "y", "z", "e", "r", " ", "o",
       "r", " ", "t", "h", "i", "s", " ", "i", "s", "s", "u", "e", " ", "i", "s", " ",
       "t", "h", "e", " ", "r", "e", "s", "u", "l", "t", " ", "o", "f", " ", "a", " ",
       "f", "a", "l", "s", "e", " ", "p", "o", "s", "i", "t", "i", "v", "e", ",", " ",
       "p", "l", "e", "a", "s", "e", " ", "c", "o", "n", "t", "a", "c", "t", " ", "[",
       "u", "s", "]", "(", "h", "t", "t", "p", "s", ":", "/", "/", "c", "o", "m", "m",
       "u", "n", "i", "t", "y", ".", "t", "r", "a", "e", "f", "i", "k", ".", "i", "o",
       "/", ")", ".", "\n" >>

Placeholder == <<"x", "x", "x">>

\* Whether the string k is in s at position i.
MatchesAt(s, k, i) ==
    /\ i + Len(k) - 1 <= Len(s)
    /\ \A j \in 1..Len(k) : s[i + j - 1] = k[j]

\* The strings safeIssueBody replaces: the key and the value of a variable
\* whose lower-cased key contains token, password or username; the key of
\* one whose key contains _url, _host or _port, and its value if longer
\* than 5.
repKeys(e) ==
    UNION { LET key == ToLower(k)
                secret == \E sub \in { <<"t","o","k","e","n">>, <<"p","a","s","s","w","o","r","d">>,
                                       <<"u","s","e","r","n","a","m","e">> } : Contains(key, sub)
                address == \E sub \in { <<"_","u","r","l">>, <<"_","h","o","s","t">>,
                                        <<"_","p","o","r","t">> } : Contains(key, sub)
            IN  (IF secret THEN {k, e[k]} ELSE {}) \cup
                (IF address THEN {k} \cup (IF Len(e[k]) > 5 THEN {e[k]} ELSE {}) ELSE {})
          : k \in DOMAIN e }

\* A replacer that takes the shortest of the strings that match.
FirstMatchShortest(m) == CHOOSE k \in m : \A o \in m : Len(k) <= Len(o)

\* The string the replacer takes among those that match at one position:
\* the first of its arguments, which sort.Slice has put longest first.
FirstMatch(m) == CHOOSE k \in m : \A o \in m : Len(o) <= Len(k)

\* strings.NewReplacer(...).Replace(msg) from position i on, as the pieces
\* of its output: a piece replaces len characters at position at by the
\* placeholder, or copies one character.  The empty string matches wherever
\* nothing longer does.
RECURSIVE Pieces(_, _, _)
Pieces(msg, keys, i) ==
    LET m == {k \in keys : k # <<>> /\ MatchesAt(msg, k, i)}
        empty == IF <<>> \in keys THEN << [at |-> i, len |-> 0, rep |-> TRUE] >> ELSE << >>
    IN  IF i > Len(msg) THEN empty
        ELSE IF m # {}
        THEN << [at |-> i, len |-> Len(FirstMatch(m)), rep |-> TRUE] >>
                 \o Pieces(msg, keys, i + Len(FirstMatch(m)))
        ELSE empty \o << [at |-> i, len |-> 1, rep |-> FALSE] >> \o Pieces(msg, keys, i + 1)

\* The text of a sequence of pieces.
RECURSIVE TextOf(_, _)
TextOf(msg, ps) ==
    IF ps = << >> THEN << >>
    ELSE (IF Head(ps).rep THEN Placeholder ELSE << msg[Head(ps).at] >>) \o TextOf(msg, Tail(ps))

\* safeIssueBody(err) in the environment e: the body and the pieces of the
\* replaced message.
safeIssueBody(msg, e) ==
    LET ps == Pieces(msg, repKeys(e), 1)
    IN  [body |-> IssuePrefix \o TextOf(msg, ps) \o IssueSuffix, pieces |-> ps]

\* The environments of the call: two variables with a secret, the address
\* of a host, and a search path.
TokenKey == <<"G","I","T","H","U","B","_","T","O","K","E","N">>

SecretKeys == { TokenKey, <<"D","b","_","P","a","s","s","w","o","r","d">> }

HostKey == <<"D","B","_","H","O","S","T">>

PathKey == <<"P","A","T","H">>

LongValue == <<"1","2","1","2","1","2">>

SecretValues == { << >>, <<"1">>, <<"1","2">>, <<"x">>, LongValue }

IssueEnvs ==
    { e \in [SecretKeys \cup {HostKey, PathKey} -> SecretValues] : e[PathKey] = <<"1","2">> }

\* The error messages: up to MaxMsg parts, each a character, a key or a
\* long value.
MaxMsg == 3

MsgParts == { <<"1">>, <<"2">>, <<"x">>, TokenKey, LongValue }

RECURSIVE Flatten(_)
Flatten(parts) == IF parts = << >> THEN << >> ELSE Head(parts) \o Flatten(Tail(parts))

Messages == { Flatten(ps) : ps \in SeqsUpTo(MsgParts, MaxMsg) }

SafeIssueBodyCalls ==
    [fn : {"safeIssueBody"}, args : [msg : Messages, env : IssueEnvs],
     res : {[body |-> << >>, pieces |-> << >>]}]

InitIssue ==
    /\ Idle
    /\ call \in SafeIssueBodyCalls

CallSafeIssueBody ==
    /\ call.fn = "safeIssueBody"
    /\ call.res.body = << >>
    /\ call' = [call EXCEPT !.res = safeIssueBody(call.args.msg, call.args.env)]
    /\ OnlyCall

NextIssue == CallSafeIssueBody

SpecIssue == InitIssue /\ [][NextIssue]_vars

\* --------------------------------------------------------- the rate limiter

\* Times are whole seconds; time.Minute is 60 of them.
Minute == 60

\* The count shouldWait puts back once the reset time is behind.
ResetRemaining == 30

\* The clock runs from 0 to MaxTime.
MaxTime == 3

Times == 0..MaxTime

\* The fields of adaptiveRateLimiterTripper that shouldWait reads and writes.
Limiters == [remaining : 0..3, resetTime : Times, safetyBuffer : 0..2]

\* shouldWait without the reset of the limiter's fields.
shouldWaitKeepState(rl, now) ==
    IF rl.remaining > rl.safetyBuffer THEN [wait |-> FALSE, waitTime |-> 0, rl |-> rl]
    ELSE IF now > rl.resetTime THEN [wait |-> FALSE, waitTime |-> 0, rl |-> rl]
    ELSE [wait |-> TRUE, waitTime |-> rl.resetTime - now, rl |-> rl]

\* shouldWait at the time now: its two results and the limiter it leaves.
\* now.After(resetTime) is strict.
shouldWait(rl, now) ==
    IF rl.remaining > rl.safetyBuffer THEN [wait |-> FALSE, waitTime |-> 0, rl |-> rl]
    ELSE IF now > rl.resetTime
    THEN [wait |-> FALSE, waitTime |-> 0,
          rl |-> [rl EXCEPT !.remaining = ResetRemaining, !.resetTime = now + Minute]]
    ELSE [wait |-> TRUE, waitTime |-> rl.resetTime - now, rl |-> rl]

NoWaitResult == [wait |-> FALSE, waitTime |-> -1, rl |-> [remaining |-> 0, resetTime |-> 0,
                                                          safetyBuffer |-> 0]]

ShouldWaitCalls ==
    [fn : {"shouldWait"}, args : [rl : Limiters, now : Times], res : {NoWaitResult}]

InitShouldWait ==
    /\ Idle
    /\ call \in ShouldWaitCalls

CallShouldWait ==
    /\ call.fn = "shouldWait"
    /\ call.res = NoWaitResult
    /\ call' = [call EXCEPT !.res = shouldWait(call.args.rl, call.args.now)]
    /\ OnlyCall

NextShouldWait == CallShouldWait

SpecShouldWait == InitShouldWait /\ [][NextShouldWait]_vars

\* RoundTrip called by NumCallers goroutines on one tripper.
NumCallers == 2

Callers == 1..NumCallers

\* strconv.Atoi and strconv.ParseInt of a header; the code drops their
\* error and keeps the 0 they return with it.
Atoi(s) ==
    CASE s = "0" -> 0
      [] s = "1" -> 1
      [] s = "2" -> 2
      [] s = "3" -> 3
      [] OTHER -> 0

\* What the next transport answers: no response, or a response with the two
\* rate headers ("" for a header that is not set).
NoResponse == [nil |-> TRUE]

Responses ==
    {NoResponse} \cup [nil : {FALSE}, remaining : {"", "0", "3", "x"}, reset : {"", "0", "2"}]

\* A caller before its call of RoundTrip.
NewCaller == [pc |-> "start", ctx |-> "active", resp |-> NoResponse, wake |-> -1,
              out |-> "", at |-> -1]

\* The limiter of Apply, the clock, the holder of mu (0 for none), the
\* callers, and the requests handed to the next transport, each with the
\* time and the limiter's fields at that moment.
RoundTripCalls ==
    [fn : {"RoundTrip"},
     rl : [remaining : {0, 3}, resetTime : {0, 2}, safetyBuffer : {1}], now : {0}, mu : {0},
     reqs : {[c \in Callers |-> NewCaller]}, sent : {{}}]

InitLimiter ==
    /\ Idle
    /\ call \in RoundTripCalls

\* rl.next.RoundTrip(req), the first statement; a nil response is returned
\* at once.
RoundTripForward(c) ==
    /\ call.fn = "RoundTrip"
    /\ call.reqs[c].pc = "start"
    /\ \E resp \in Responses :
         call' = [call EXCEPT
                    !.sent = @ \cup {[by |-> c, now |-> call.now, rl |-> call.rl]},
                    !.reqs[c].resp = resp,
                    !.reqs[c].pc = IF resp = NoResponse THEN "returned" ELSE "lock",
                    !.reqs[c].out = IF resp = NoResponse THEN "nil" ELSE "",
                    !.reqs[c].at = IF resp = NoResponse THEN call.now ELSE -1]
    /\ OnlyCall

\* The limiter after the headers of resp are read.
FromHeaders(rl, resp) ==
    LET r1 == IF resp.remaining # "" THEN [rl EXCEPT !.remaining = Atoi(resp.remaining)] ELSE rl
    IN  IF resp.reset # "" /\ Atoi(resp.reset) # 0
        THEN [r1 EXCEPT !.resetTime = Atoi(resp.reset)] ELSE r1

\* mu.Lock(), the headers, shouldWait: the caller returns the response and
\* unlocks, or starts its timer and waits with mu held.
RoundTripUpdate(c) ==
    /\ call.fn = "RoundTrip"
    /\ call.reqs[c].pc = "lock"
    /\ call.mu = 0
    /\ LET sw == shouldWait(FromHeaders(call.rl, call.reqs[c].resp), call.now)
       IN  call' = [call EXCEPT
                      !.rl = sw.rl,
                      !.mu = IF sw.wait THEN c ELSE 0,
                      !.reqs[c].resp = NoResponse,
                      !.reqs[c].pc = IF sw.wait THEN "waiting" ELSE "returned",
                      !.reqs[c].wake = IF sw.wait THEN call.now + sw.waitTime ELSE -1,
                      !.reqs[c].out = IF sw.wait THEN "" ELSE "resp",
                      !.reqs[c].at = IF sw.wait THEN -1 ELSE call.now]
    /\ OnlyCall

\* case <-time.After(waitTime)
RoundTripWaitOver(c) ==
    /\ call.fn = "RoundTrip"
    /\ call.reqs[c].pc = "waiting"
    /\ call.now >= call.reqs[c].wake
    /\ call' = [call EXCEPT !.mu = 0, !.reqs[c].pc = "returned", !.reqs[c].out = "resp",
                            !.reqs[c].at = call.now]
    /\ OnlyCall

\* case <-req.Context().Done()
RoundTripCancelled(c) ==
    /\ call.fn = "RoundTrip"
    /\ call.reqs[c].pc = "waiting"
    /\ call.reqs[c].ctx = "cancelled"
    /\ call' = [call EXCEPT !.mu = 0, !.reqs[c].pc = "returned", !.reqs[c].out = "ctxErr",
                            !.reqs[c].at = call.now]
    /\ OnlyCall

\* The owner of the request cancels its context.
CancelRequest(c) ==
    /\ call.fn = "RoundTrip"
    /\ call.reqs[c].pc # "returned"
    /\ call.reqs[c].ctx = "active"
    /\ call' = [call EXCEPT !.reqs[c].ctx = "cancelled"]
    /\ OnlyCall

\* A second goes by.
Tick ==
    /\ call.fn = "RoundTrip"
    /\ call.now < MaxTime
    /\ call' = [call EXCEPT !.now = @ + 1]
    /\ OnlyCall

NextLimiter ==
    \/ \E c \in Callers : RoundTripForward(c)
    \/ \E c \in Callers : RoundTripUpdate(c)
    \/ \E c \in Callers : RoundTripWaitOver(c)
    \/ \E c \in Callers : RoundTripCancelled(c)
    \/ \E c \in Callers : CancelRequest(c)
    \/ Tick

SpecLimiter == InitLimiter /\ [][NextLimiter]_vars

\* ------------------------------------------------------------- properties

\* The names of the logged steps of the current repository.
StepNames == {steps[i].name : i \in 1..Len(steps)}

\* Whether the catalog was written for repository r.
Written(r) == \E i \in 1..Len(pgCalls[r]) : pgCalls[r][i] \in {"Create", "Update"}

\* C1: in Run, Create or Update is called for a repository only after
\* process returned a record for it; process returns a record only when every
\* earlier step, the interpreted-code check included, returned no error; no
\* Create and no Update is made for a repository whose verification failed.
C1_StoreOnlyVerified ==
    /\ \A r \in Repos : Written(r) => procRes[r] = "rec"
    /\ \A r \in Repos : procRes[r] \in {"err", "err5xx"} => ~Written(r)
    /\ (pc = "store" /\ procRes[idx] = "rec") =>
          /\ \A i \in 1..Len(steps) : steps[i].ok
          /\ {"getLatestTag", "loadReadme", "loadManifest", "createSnippets"} \subseteq StepNames
          /\ "verifyYaegiPlugin" \in StepNames =>
                ("yaegiCheck" \in StepNames /\ yerr.kind = "nil")
          /\ "verifyWASMPlugin" \in StepNames => "verifyRelease" \in StepNames

\* One repository was verified and written to the catalog, another failed
\* its interpreted-code check and got an issue instead.
C1_Witness ==
    \E r \in Repos, q \in Repos :
        /\ Written(r) /\ procRes[r] = "rec"
        /\ procRes[q] = "err" /\ issues[q] = 1 /\ ~Written(q)
        /\ g[q].pc # "none"

\* What the claim C2 accepts: 4 parameters (implementing context.Context,
\* implementing http.Handler, assignable from the CreateConfig result type,
\* string-kinded) and 2 results (implementing http.Handler and error).
ClaimedSignature(fn, cfg) ==
    /\ Len(fn.in) = 4
    /\ Implements(fn.in[1], "context.Context")
    /\ Implements(fn.in[2], "http.Handler")
    /\ AssignableTo(cfg, fn.in[3])
    /\ TypeOf(fn.in[4]).kind = "string"
    /\ Len(fn.out) = 2
    /\ Implements(fn.out[1], "http.Handler")
    /\ Implements(fn.out[2], "error")

\* C2: checkFunctionNewSignature accepts a function exactly when it has the
\* 4 parameters and 2 results of the contract, the third parameter being one
\* the configuration value can be assigned to; every other shape is rejected.
C2_AcceptsExactlyContract ==
    /\ pc = "callNew" => ClaimedSignature(fnNew, ConfigType)
    /\ (pc = "yReturn" /\ "signature" \in acts) => ~ClaimedSignature(fnNew, ConfigType)

\* The panic values plugin code of the current repository raised.
PanicValuesRaised == {p[2] : p \in panics}

\* The check of the current repository has returned after plugin code raised
\* a panic.
ReturnedAfterPanic == pc = "yaegiReturned" /\ panics # {}

\* C3 as stated: if plugin code panics during the import, CreateConfig or
\* New, yaegiCheck returns a non-nil error that carries the panic value.
C3_ErrorCarriesPanic ==
    ReturnedAfterPanic => (yerr.kind # "nil" /\ yerr.pv \in PanicValuesRaised)

\* C3: if plugin code panics during the import, CreateConfig or New,
\* yaegiCheck returns a non-nil error; the error carries the panic value
\* unless the check's context was done first, and then it wraps the
\* context's error; the process does not terminate and Run goes on to the
\* next repository.
C3_PanicBecomesError ==
    /\ [](/\ ~crashed
          /\ pc # "crashed"
          /\ ReturnedAfterPanic =>
                /\ yerr.kind # "nil"
                /\ yerr.pv \in PanicValuesRaised \/ yerr.cause = "context deadline exceeded")
    /\ [][(pc = "yaegiReturned" /\ panics # {} /\ pc' # pc) => pc' = "processFailed"]_vars
    /\ [][(pc = "processFailed" /\ pc' # pc) => (pc' = "loop" /\ idx' = idx + 1
                                                   /\ runRes' = "running")]_vars

\* The constructor of one repository panicked, callNew received the error
\* with the panic value, the repository failed and got an issue, and Run is
\* at a later repository.
C3_Witness ==
    \E r \in Repos :
        /\ g[r] = [pc |-> "exit", h |-> FALSE, e |-> FALSE, pv |-> "boom", tries |-> 1, sent |-> 1]
        /\ procRes[r] = "err"
        /\ issues[r] = 1
        /\ idx > r
        /\ pc = "getLatestTag"
        /\ ~crashed

\* Third-party plugin code is executing: the import, CreateConfig, or New on
\* a goroutine callNew started.
PluginRunning ==
    \/ pc \in {"importing", "creatingConfig"}
    \/ \E r \in Repos : g[r].pc = "calling"

\* C4: whenever plugin code is executing for the check, New on the
\* goroutine of callNew included, the environment holds no variable whose
\* lower-cased key contains token, password, username, _url, _host or _port.
C4_NoSensitiveWhilePluginRuns ==
    PluginRunning => \A k \in DOMAIN env : ~IsSensitiveKey(k)

\* C5: for every outcome of yaegiCheck the environment after it returns is
\* the environment before the call: every removed variable is set again with
\* its original value and no other variable is changed.
C5_EnvRestored ==
    pc = "yaegiReturned" => env = envAtCall

\* yaegiCheck recovered a panic and returned, in an environment that holds a
\* sensitive variable with a value and another variable.
C5_Witness ==
    /\ pc = "yaegiReturned"
    /\ yerr.kind = "panic from yaegi"
    /\ \E k \in DOMAIN env : IsSensitiveKey(k) /\ env[k] # <<>>
    /\ \E k \in DOMAIN env : ~IsSensitiveKey(k)

\* C6: callNew returns even if New never returns, and yaegiMiddlewareCheck
\* always eventually ends in success or failure.
C6_CheckTerminates ==
    /\ (pc = "select") ~> (pc = "yReturn")
    /\ (pc = "ymcStart") ~> (pc = "yaegiReturned")

\* callNew returned the failure of the done context while the constructor
\* was still running.
C6_Witness ==
    /\ pc = "yaegiReturned"
    /\ g[idx].pc = "calling"
    /\ yerr = CtxErr("the function New has failed")

\* C7: cancelling the context passed to Run cancels the context of the
\* check, which is derived from it: once the context of Run is cancelled no
\* check has a context that is still active.
C7_CancelPropagates ==
    runCtx = "cancelled" => ckCtx # "active"

\* The goroutine of callNew for repository r stands at a send nobody will
\* receive: callNew has returned.
BlockedForever(r) ==
    /\ g[r].pc \in SendPcs
    /\ ~(r = idx /\ pc = "select")

\* C8: for every callNew the goroutine hands off exactly one result on errCh
\* and terminates: it never attempts a second send and never stays blocked
\* on a send.
C8_OneHandoff ==
    \A r \in Repos : g[r].tries <= 1 /\ ~BlockedForever(r)

\* What the check of the current repository did.
Ran(a) == a \in acts

\* yaegiCheck has returned for a middleware manifest.
MiddlewareReturned == pc = "yaegiReturned" /\ manifest.Type = typeMiddleware

\* C9 as stated: with useUnsafe true yaegiCheck succeeds without interpreter,
\* import, CreateConfig or New; with useUnsafe absent or false a check that
\* succeeds ran the load, the signature check and the constructor.
C9_UnsafeSkipsElseFull ==
    /\ (MiddlewareReturned /\ manifest.UseUnsafe) => (yerr = NoErr /\ acts = {})
    /\ (MiddlewareReturned /\ ~manifest.UseUnsafe /\ yerr = NoErr) =>
          {"interp", "import", "CreateConfig", "signature", "New"} \subseteq acts

\* C9: with useUnsafe true yaegiCheck succeeds without interpreter, import,
\* CreateConfig or New; with useUnsafe absent or false a check that succeeds
\* ran the load and the signature check, and ran the constructor unless the
\* module is in skipNewCall, for which the constructor is never invoked.
C9_UnsafeSkipsElseFullButSkipNew ==
    /\ (MiddlewareReturned /\ manifest.UseUnsafe) => (yerr = NoErr /\ acts = {})
    /\ (MiddlewareReturned /\ ~manifest.UseUnsafe /\ yerr = NoErr) =>
          /\ {"interp", "import", "CreateConfig", "signature"} \subseteq acts
          /\ moduleName \notin skipNewCall => Ran("New")
    /\ (manifest.Type = typeMiddleware /\ moduleName \in skipNewCall) => ~Ran("New")

\* yaegiCheck returned success for an unsafe middleware without running
\* anything.
C9_Witness ==
    /\ MiddlewareReturned
    /\ manifest.UseUnsafe
    /\ yerr = NoErr
    /\ acts = {}

\* What the interpreted-code verifier and the WASM verifier do.
YaegiActs == {"interp", "import", "CreateConfig", "signature", "callNew", "New"}

WasmActs == {"wasm"}

LookupUpToDate ==
    /\ lookup.err = "nil"
    /\ lookup.prev # NoPlugin
    /\ lookup.prev.LatestVersion = lookup.latestVersion
    /\ lookup.prev.Stars = lookup.stars

\* C11: the short-circuit signals "no update needed" only when the lookup
\* returned no error and a record whose LatestVersion and Stars equal the
\* observed tag and star count; when the lookup fails, returns no record or
\* either value differs, verification is not skipped.
C11_SkipOnlyWhenUpToDate ==
    /\ (pc = "store" /\ procRes[idx] = "skip") => LookupUpToDate
    /\ pc \in {"checkModuleFile", "wasmGetVersions"} =>
          (lookup # NoLookup /\ ~LookupUpToDate /\ procRes[idx] = "none")

\* process returned skip on a record with the observed tag and star count.
C11_Witness ==
    /\ pc = "store"
    /\ procRes[idx] = "skip"
    /\ lookup.prev = [LatestVersion |-> "v1.1.0", Stars |-> 8]
    /\ lookup.latestVersion = "v1.1.0"
    /\ lookup.stars = 8

\* The steps that follow the short-circuit in either verifier and in process.
StepsAfterLookup ==
    {"checkModuleFile", "checkRepoName", "getVersions", "MkdirTemp", "sources.Get", "yaegiCheck",
     "wasmGetVersions", "verifyRelease", "createSnippets", "record"}

\* C12: when the short-circuit signals skip for a repository, Run performs
\* for it no consistency check, no source download, no interpreter or WASM
\* run, no Create or Update and no issue creation; store gets a nil record
\* and returns without calling the catalog client.
C12_SkipDoesNothing ==
    /\ \A r \in Repos : procRes[r] = "skip" =>
          /\ pgCalls[r] = <<"GetByName">>
          /\ issues[r] = 0
          /\ g[r].pc = "none"
    /\ (pc = "store" /\ procRes[idx] = "skip") =>
          /\ acts = {}
          /\ StepNames \cap StepsAfterLookup = {}

\* A repository was skipped, store has returned and Run is past it.
C12_Witness ==
    \E r \in Repos :
        /\ procRes[r] = "skip"
        /\ idx > r
        /\ pgCalls[r] = <<"GetByName">>
        /\ r \notin openIssues

\* The logged step of that name succeeded.
StepOK(name) == \E i \in 1..Len(steps) : steps[i].name = name /\ steps[i].ok

\* The logged step of that name failed.
StepFailed(name) == \E i \in 1..Len(steps) : steps[i].name = name /\ ~steps[i].ok

\* The positions of the interpreted path from the source download on.
AfterConsistency ==
    {"yaegiCheck", "ymcStart", "import", "importing", "createConfig", "creatingConfig",
     "decodeConfig", "evalNew", "sigCheck", "callNew", "select", "yReturn", "yaegiReturned"}

\* C13: no plugin source is downloaded and no plugin code is interpreted
\* for a repository before checkModuleFile and checkRepoName have both
\* succeeded for it; a consistency failure ends the pipeline of the
\* repository with an error, without source fetch or interpreter activity.
C13_ConsistencyBeforeCode ==
    /\ ("sources.Get" \in StepNames \/ acts \cap YaegiActs # {} \/ pc \in AfterConsistency) =>
          (StepOK("checkModuleFile") /\ StepOK("checkRepoName"))
    /\ (StepFailed("checkModuleFile") \/ StepFailed("checkRepoName")) =>
          /\ pc = "processFailed"
          /\ procRes[idx] = "err"
          /\ "sources.Get" \notin StepNames
          /\ acts = {}

\* checkRepoName failed after checkModuleFile succeeded: process returned
\* the error and nothing was fetched or interpreted.
C13_Witness ==
    /\ pc = "processFailed"
    /\ StepOK("checkModuleFile")
    /\ StepFailed("checkRepoName")
    /\ acts = {}

\* A path of the repository: github.com/<owner>/<repo> itself, or that
\* followed by "/" and more.
BelongsTo(path, fullName) ==
    LET repoName == PathJoin(GithubCom, fullName)
    IN  path = repoName \/ HasPrefix(path, repoName \o <<"/">>)

\* C14: checkRepoName returns nil only when the module path and the import
\* path are both github.com/<owner>/<repo> or extend it at a path-segment
\* boundary.
C14_RepoNameAtSegmentBoundary ==
    (call.fn = "checkRepoName" /\ call.res = "")
        => /\ BelongsTo(call.args.module, call.args.fullName)
           /\ BelongsTo(call.args.import, call.args.fullName)

\* checkModuleFile has returned.
ModuleFileChecked == call.fn = "checkModuleFile" /\ call.res # "pending"

\* Some requirement names one of the six forbidden modules.
RequiresForbidden ==
    \E i \in 1..Len(call.args.requires) :
        \E f \in ForbiddenPaths : Contains(call.args.requires[i], f)

\* The import path starts with the module path once every "-" of both is
\* written "_".
ImportRelated ==
    HasPrefix(ReplaceAll(call.args.import, "-", "_"), ReplaceAll(call.args.module, "-", "_"))

\* C15: checkModuleFile returns an error whenever a required module path
\* contains one of the six forbidden paths, whatever the module path and
\* the manifest's import are.
C15_ForbiddenDependencyFails ==
    (ModuleFileChecked /\ RequiresForbidden) => call.res # ""

\* A forbidden module that is not the first requirement of a module file
\* whose import is related to its module path: the check has failed.
C15_Witness ==
    /\ ModuleFileChecked
    /\ Len(call.args.requires) = 2
    /\ ~(\E f \in ForbiddenPaths : Contains(call.args.requires[1], f))
    /\ RequiresForbidden
    /\ ImportRelated
    /\ call.res # ""

\* C16: checkModuleFile fails for every pair whose hyphen-normalised import
\* does not start with the hyphen-normalised module path, and with no
\* forbidden requirement it succeeds for every pair where it does.
C16_ImportRelatedToModule ==
    ModuleFileChecked
        => /\ ~ImportRelated => call.res # ""
           /\ (ImportRelated /\ ~RequiresForbidden) => call.res = ""

\* A pair that is related only after the normalisation has been accepted.
C16_Witness ==
    /\ ModuleFileChecked
    /\ ImportRelated
    /\ ~HasPrefix(call.args.import, call.args.module)
    /\ ~RequiresForbidden
    /\ call.res = ""

\* loadManifestContent has returned.
ManifestLoaded == call.fn = "loadManifestContent" /\ call.res.err # "pending"

\* The error for each of the three fields.
MissingError(field) ==
    CASE field = "displayName" -> "missing DisplayName"
      [] field = "summary" -> "missing Summary"
      [] field = "testData" -> "missing TestData"

\* The fields among displayName, summary and testData that the content of
\* the call lacks.
Lacking ==
    LET c == call.args.content
    IN  (IF c.displayName = "" THEN {"displayName"} ELSE {}) \cup
        (IF c.summary = "" THEN {"summary"} ELSE {}) \cup
        (IF c.testData = "absent" THEN {"testData"} ELSE {})

\* The type and the import are valid and the document can be read.
RestValid ==
    LET c == call.args.content
    IN  /\ c.type \in {typeMiddleware, typeProvider}
        /\ c.import # ""
        /\ c.testData # "string"
        /\ (c.testData = "map" => call.args.decodes)

\* C17: loadManifestContent fails for every manifest that lacks displayName,
\* summary or testData; when nothing else is wrong the error is the one of a
\* field that is lacking, the only lacking one if there is just one, and the
\* three errors differ; a manifest whose type, import, displayName, summary
\* and testData are valid is returned without error.
C17_MissingFieldErrors ==
    ManifestLoaded
        => /\ Lacking # {} => call.res.err # ""
           /\ (Lacking # {} /\ RestValid)
                 => \E f \in Lacking : call.res.err = MissingError(f)
           /\ \A f1, f2 \in {"displayName", "summary", "testData"} :
                 f1 # f2 => MissingError(f1) # MissingError(f2)
           /\ (Lacking = {} /\ RestValid /\ call.args.content.testData = "map")
                 => /\ call.res.err = ""
                    /\ call.res.manifest = Unmarshal(call.args.content)

\* Only the summary is lacking, and the load has failed for it.
C17_Witness ==
    /\ ManifestLoaded
    /\ Lacking = {"summary"}
    /\ RestValid
    /\ call.res.err = "missing Summary"

\* C18: loadManifestContent fails for every manifest of type provider with
\* runtime wasm, whatever its other fields are.
C18_ProviderWasmFails ==
    (/\ ManifestLoaded
     /\ call.args.content.type = typeProvider
     /\ call.args.content.runtime = runtimeWasm)
        => call.res.err # ""

\* verifyRelease has returned.
ReleaseVerified == call.fn = "verifyRelease" /\ call.res.err # NewError("pending")

\* The path of the artifact the manifest of the call asks for.
ArtifactPath ==
    IF call.args.manifest.WasmPath = <<>> THEN wasmFile ELSE call.args.manifest.WasmPath

\* The archive of the only .zip asset has been opened and the artifact path
\* is local.
ArchiveRead ==
    /\ Cardinality(ZipAssets(call.args.assets)) = 1
    /\ call.args.fault \in {"none", "guest"}
    /\ IsLocal(ArtifactPath)

\* C19: verifyRelease returns nil only if the release has exactly one .zip
\* asset and the archive holds the artifact path and the manifest file; no
\* .zip asset, several .zip assets, a missing artifact and a missing
\* manifest file each give the error of that cause.
C19_OneArchiveWithBoth ==
    ReleaseVerified
        => /\ call.res.err = NilError
                 => /\ Cardinality(ZipAssets(call.args.assets)) = 1
                    /\ ArtifactPath \in call.args.files
                    /\ manifestFile \in call.args.files
           /\ call.args.fault # "release"
                 => /\ Cardinality(ZipAssets(call.args.assets)) = 0
                          => call.res.err.msg = "zip archive not found"
                    /\ Cardinality(ZipAssets(call.args.assets)) > 1
                          => call.res.err.msg = "too many zip archive"
           /\ ArchiveRead
                 => /\ ArtifactPath \notin call.args.files
                          => /\ call.res.err.wrapped = "failed to find"
                             /\ call.res.err.name = ArtifactPath
                    /\ (ArtifactPath \in call.args.files /\ manifestFile \notin call.args.files)
                          => /\ call.res.err.wrapped = "failed to find"
                             /\ call.res.err.name = manifestFile

\* A release with a .zip asset and another asset, whose archive holds the
\* artifact the manifest names and the manifest file, has been accepted.
C19_Witness ==
    /\ ReleaseVerified
    /\ Len(call.args.assets) = 2
    /\ call.args.manifest.WasmPath # <<>>
    /\ call.args.manifest.Type = typeMiddleware
    /\ call.res.err = NilError
    /\ call.res.effects = << "download", "readAll", "zipReader", "checkWasmMiddleware" >>

\* C20: for a manifest whose wasmPath is not local to the archive root,
\* verifyZip has downloaded no asset and built no zip reader when it returns.
C20_RejectedBeforeArchiveOpened ==
    (ReleaseVerified /\ ~IsLocal(ArtifactPath))
        => \A i \in 1..Len(call.res.effects) : call.res.effects[i] \notin {"download", "zipReader"}

\* The place of a logged step in the order of process: the latest tag, the
\* readme, the manifest, the verification (all the steps of either
\* verifier), the snippets, the record.
StepRank(name) ==
    CASE name = "getLatestTag" -> 1
      [] name = "loadReadme" -> 2
      [] name = "loadManifest" -> 3
      [] name = "createSnippets" -> 5
      [] name = "record" -> 6
      [] OTHER -> 4

\* The step that ends the stage of the given rank with success.
StageDone(name, rank) ==
    CASE rank = 4 -> name \in {"yaegiCheck", "verifyRelease"}
      [] OTHER -> StepRank(name) = rank

\* C21: the steps of process for one repository occur in the order latest
\* tag, readme, manifest, verification, snippets, record; a step starts only
\* after the preceding one has succeeded, and nothing follows a failed step.
C21_StepsInOrder ==
    \A i \in 1..Len(steps) :
        /\ ~steps[i].ok => i = Len(steps)
        /\ \A j \in 1..(i - 1) : StepRank(steps[j].name) <= StepRank(steps[i].name)
        /\ StepRank(steps[i].name) > 1
              => \E j \in 1..(i - 1) :
                    /\ StageDone(steps[j].name, StepRank(steps[i].name) - 1)
                    /\ steps[j].ok

\* process has assembled a record: all six stages are in the log.
C21_Witness ==
    /\ pc = "store"
    /\ Len(steps) > 0
    /\ steps[Len(steps)].name = "record"
    /\ {StepRank(steps[i].name) : i \in 1..Len(steps)} = 1..6

\* Run is done with repository r.
Handled(r) == pc \in {"done", "crashed"} \/ (idx > r /\ pc # "run")

\* C22: when process fails for a repository, Run calls Issues.Create for it
\* once unless the error wraps a GitHub error response of status 500 or
\* more, for which it creates no issue; either way store is not called for
\* the repository: the catalog sees at most the lookup of process.
C22_IssueUnlessServerError ==
    \A r \in Repos :
        (Handled(r) /\ procRes[r] \in {"err", "err5xx"} /\ ~crashed)
            => /\ issues[r] = IF procRes[r] = "err" THEN 1 ELSE 0
               /\ ~Written(r)
               /\ Len(pgCalls[r]) <= 1

\* One repository failed with a server error and got no issue, another
\* failed otherwise and got one.
C22_Witness ==
    \E r \in Repos, q \in Repos :
        /\ Handled(r) /\ Handled(q)
        /\ procRes[r] = "err5xx" /\ issues[r] = 0
        /\ procRes[q] = "err" /\ issues[q] = 1 /\ q \in openIssues

\* C23: over any sequence of runs, Run calls Issues.Create for no repository
\* that has an open analyzer issue; what the issue search found at the start
\* of the run is skipped without being processed; a repository that is not
\* blacklisted and had no open issue at the start of the run is processed.
C23_NoSecondIssue ==
    [][/\ \A r \in Repos : issues'[r] > issues[r] => r \notin openIssues
       /\ (pc = "run" /\ pc' = "loop") => existing' = openIssues
       /\ (pc = "loop" /\ idx' = idx + 1) => isSkipped(idx)
       /\ (pc = "loop" /\ pc' = "getLatestTag")
             => (idx \notin existing /\ RepoFullName(idx) \notin blacklist)
       /\ (pc = "loop" /\ idx <= NumRepos /\ idx \notin existing
              /\ RepoFullName(idx) \notin blacklist /\ pc' # pc)
             => pc' = "getLatestTag"]_vars

\* A later run has passed over the first repository, whose issue of an
\* earlier run is still open, and has failed on the third, which got an
\* issue of its own.
C23_Witness ==
    /\ 1 \in existing
    /\ 1 \in openIssues
    /\ 3 \in openIssues \ existing
    /\ pc = "done"
    /\ issues[1] = 0
    /\ procRes[1] = "none"

\* The calls of the given operation in a sequence of catalog calls.
CallsOf(calls, op) == {i \in 1..Len(calls) : calls[i].op = op}

\* The first store has returned.
StoredOnce == call.fn = "store" /\ call.res.first # NoStoreResult /\ call.args.data # NoPlugin

\* C24: store calls Create once and never Update when GetByName fails with
\* an API error of status 404; it returns an error and calls neither when
\* GetByName fails otherwise; when GetByName returns a record that differs
\* from the new one it calls Update once, with the ID and CreatedAt of the
\* previous record in the new one.
C24_CreateOn404UpdateOnChange ==
    StoredOnce
        => LET r == call.res.first
               look == call.args.look
           IN  /\ look.err = "404"
                     => /\ Cardinality(CallsOf(r.calls, "Create")) = 1
                        /\ CallsOf(r.calls, "Update") = {}
               /\ look.err \in {"500", "error"}
                     => /\ r.err # ""
                        /\ CallsOf(r.calls, "Create") = {}
                        /\ CallsOf(r.calls, "Update") = {}
               /\ (look.err = "nil" /\ ~EqualIgnoringIDCreatedAt(call.args.data, look.prev))
                     => /\ Cardinality(CallsOf(r.calls, "Update")) = 1
                        /\ CallsOf(r.calls, "Create") = {}
                        /\ \A i \in CallsOf(r.calls, "Update") :
                              r.calls[i].arg = [call.args.data EXCEPT !.ID = look.prev.ID,
                                                                     !.CreatedAt = look.prev.CreatedAt]

\* A record with a new tag has replaced the one of the catalog and kept its
\* ID and creation time.
C24_Witness ==
    /\ StoredOnce
    /\ call.args.look.err = "nil"
    /\ call.args.look.prev.ID = "aaaa"
    /\ call.args.data.ID = ""
    /\ call.args.data.LatestVersion # call.args.look.prev.LatestVersion
    /\ call.res.first.err = ""
    /\ call.res.catalog.ID = "aaaa"
    /\ call.res.catalog.LatestVersion = call.args.data.LatestVersion

\* C25: a second store of a record equal to the first but for ID and
\* CreatedAt, against the catalog the first store left, calls neither Update
\* nor Create.
C25_SecondStoreWritesNothing ==
    (/\ call.fn = "store"
     /\ call.res.second # NoStoreResult
     /\ call.res.first.err = "")
        => /\ CallsOf(call.res.second.calls, "Update") = {}
           /\ CallsOf(call.res.second.calls, "Create") = {}

\* The first store created the record, the server gave it an ID, and the
\* second store, of a record without that ID, has returned.
C25_Witness ==
    /\ call.fn = "store"
    /\ call.res.second # NoStoreResult
    /\ CallsOf(call.res.first.calls, "Create") # {}
    /\ call.res.first.err = ""
    /\ call.res.catalog.ID = "aaaa"
    /\ call.args.id2 = ""
    /\ call.res.second.err = ""

\* safeIssueBody has returned.
BodyMade == call.fn = "safeIssueBody" /\ call.res.body # << >>

\* The non-empty values of the variables whose key contains token,
\* password or username.
SensitiveValues == {call.args.env[k] : k \in SecretKeys} \ {<< >>}

SignatureErrorSays(msg) ==
    CASE msg = "invalid input arguments: got n arguments expected 4"
           -> [direction |-> "input", position |-> 0]
      [] msg = "invalid input arguments: the 1st argument must have the type context.Context"
           -> [direction |-> "input", position |-> 1]
      [] msg = "invalid input arguments: the 2nd argument must have the type http.Handler"
           -> [direction |-> "input", position |-> 2]
      [] msg = "invalid input arguments: the 3rd argument must have the same type as the Config structure"
           -> [direction |-> "input", position |-> 3]
      [] msg = "invalid input arguments: the 4th argument must have the type string"
           -> [direction |-> "input", position |-> 4]
      [] msg = "invalid output arguments: got n arguments expected 2"
           -> [direction |-> "output", position |-> 0]
      [] msg = "invalid input arguments: the 1st argument must have the type http.Handler"
           -> [direction |-> "input", position |-> 1]
      [] msg = "invalid input arguments: the 2nd argument must have the type error"
           -> [direction |-> "input", position |-> 2]

\* The parameters of the function pass the checks of the signature.
ParametersPass(fn) ==
    /\ Len(fn.in) = 4
    /\ Implements(fn.in[1], "context.Context")
    /\ Implements(fn.in[2], "http.Handler")
    /\ ConfigParamOK(fn.in[3], ConfigType)
    /\ TypeOf(fn.in[4]).kind = "string"

\* C27: every rejection by checkFunctionNewSignature names the direction
\* that is violated: an error about the parameters says input, an error
\* about the number or the type of the results says output, and a result of
\* a wrong type is named by its position among the results.
C27_ErrorNamesDirection ==
    (pc = "yReturn" /\ "signature" \in acts)
        => LET says == SignatureErrorSays(checkFunctionNewSignature(fnNew, ConfigType))
           IN  /\ ~ParametersPass(fnNew) => says.direction = "input"
               /\ ParametersPass(fnNew) => says.direction = "output"
               /\ (ParametersPass(fnNew) /\ Len(fnNew.out) = 2)
                     => says.position = IF ~Implements(fnNew.out[1], "http.Handler") THEN 1 ELSE 2

\* shouldWait has returned.
WaitDecided == call.fn = "shouldWait" /\ call.res # NoWaitResult

\* What C28 says of the first two cases: no wait and duration 0 above the
\* safety buffer; no wait, duration 0, remaining 30 and the reset time one
\* minute after now once the reset time is behind.
ShouldWaitNoWaitCases ==
    LET rl == call.args.rl
        now == call.args.now
        res == call.res
    IN  /\ rl.remaining > rl.safetyBuffer => ~res.wait /\ res.waitTime = 0
        /\ (rl.remaining <= rl.safetyBuffer /\ now > rl.resetTime)
              => /\ ~res.wait
                 /\ res.waitTime = 0
                 /\ res.rl.remaining = 30
                 /\ res.rl.resetTime = now + Minute

\* C28 as stated: shouldWait reports no wait with duration 0 when remaining
\* is above safetyBuffer; at or below it, no wait with duration 0, remaining
\* 30 and resetTime one minute after now when the reset time has passed, and
\* wait with a strictly positive duration resetTime - now, state unchanged,
\* when the reset time has not passed.
C28_ShouldWaitPositive ==
    WaitDecided
        => /\ ShouldWaitNoWaitCases
           /\ (call.args.rl.remaining <= call.args.rl.safetyBuffer
                  /\ ~(call.args.now > call.args.rl.resetTime))
                 => /\ call.res.wait
                    /\ call.res.waitTime > 0
                    /\ call.res.waitTime = call.args.rl.resetTime - call.args.now
                    /\ call.res.rl = call.args.rl

\* C28, amended: as above, but in the third case the duration resetTime - now
\* is strictly positive when now is before the reset time and 0 when now is
\* the reset time.
C28_ShouldWait ==
    WaitDecided
        => /\ ShouldWaitNoWaitCases
           /\ (call.args.rl.remaining <= call.args.rl.safetyBuffer
                  /\ ~(call.args.now > call.args.rl.resetTime))
                 => /\ call.res.wait
                    /\ call.res.waitTime = call.args.rl.resetTime - call.args.now
                    /\ call.res.waitTime >= 0
                    /\ (call.res.waitTime > 0 <=> call.args.now < call.args.rl.resetTime)
                    /\ call.res.rl = call.args.rl

\* shouldWait was called at the reset time with the count at the safety
\* buffer, and has reported a wait of no duration.
C28_Witness ==
    /\ WaitDecided
    /\ call.args.rl.remaining = call.args.rl.safetyBuffer
    /\ call.args.now = call.args.rl.resetTime
    /\ call.res.wait
    /\ call.res.waitTime = 0

\* The limiter's count is at or below the safety buffer and its reset time
\* has not passed.
AtLimit(rl, now) == rl.remaining <= rl.safetyBuffer /\ now <= rl.resetTime

\* C30: no request is forwarded to the next transport while the last known
\* remaining count is at or below safetyBuffer and the known reset time has
\* not passed, and a RoundTrip that observes this state returns only at the
\* reset time or later, or with its context cancelled.
C30_KeepsSafetyBuffer ==
    call.fn = "RoundTrip"
        => /\ \A f \in call.sent : ~AtLimit(f.rl, f.now)
           /\ \A c \in Callers :
                 (call.reqs[c].pc = "returned" /\ call.reqs[c].wake # -1)
                    => \/ call.reqs[c].at >= call.reqs[c].wake
                       \/ call.reqs[c].ctx = "cancelled"

\* The second half of C30 alone: a RoundTrip that found the limiter at its
\* limit returns the response no earlier than the reset time, or the error of
\* its cancelled context.
RoundTripWaits ==
    call.fn = "RoundTrip"
        => \A c \in Callers :
              (call.reqs[c].pc = "returned" /\ call.reqs[c].wake # -1)
                 => \/ call.reqs[c].out = "resp" /\ call.reqs[c].at >= call.reqs[c].wake
                    \/ call.reqs[c].out = "ctxErr" /\ call.reqs[c].ctx = "cancelled"

\* A request went to the next transport while another RoundTrip was waiting
\* for the reset time with mu held.
ForwardedDuringWait ==
    /\ call.fn = "RoundTrip"
    /\ \E c \in Callers, f \in call.sent :
         /\ call.reqs[c].pc = "waiting"
         /\ f.by # c
         /\ AtLimit(f.rl, f.now)
         /\ f.rl = call.rl

\* C29: a failure for one repository never aborts the run. process starts
\* only at the head of the loop, for the repository of the loop variable,
\* which is not skipped and was not processed before; the loop variable
\* moves one repository at a time; a repository that is not skipped is
\* handed to process; after a failed process (issue created or not) and
\* after store, whatever it returned, the loop goes on with the next
\* repository; Run returns only from a failed search, with an error, or
\* after the last repository, with nil.
C29_FailureNeverAborts ==
    [][/\ (pc' = "getLatestTag" /\ pc # "getLatestTag")
            => /\ pc = "loop"
               /\ idx' = idx
               /\ RepoFullName(idx) \notin blacklist
               /\ idx \notin existing
               /\ procRes[idx] = "none"
       /\ idx' # idx => idx' = idx + 1
       /\ (pc = "loop" /\ idx <= NumRepos /\ pc' # pc) => pc' = "getLatestTag"
       /\ (pc \in {"processFailed", "store"} /\ pc' # pc)
            => /\ pc' = "loop"
               /\ idx' = idx + 1
               /\ runRes' = "running"
       /\ (pc' = "done" /\ pc # "done")
            => \/ pc = "run" /\ runRes' = "err"
               \/ /\ pc = "loop" /\ idx > NumRepos /\ runRes' = "nil"
                  /\ \A r \in Repos :
                        procRes[r] # "none"
                           <=> (RepoFullName(r) \notin blacklist /\ r \notin existing)
       /\ pc' # "crashed"
      ]_vars

\* Run has returned nil after a repository whose verification failed and
\* whose issue could not be created, and a later repository whose record
\* went to store.
C29_Witness ==
    /\ pc = "done"
    /\ runRes = "nil"
    /\ \E r1, r2 \in Repos :
         /\ r1 < r2
         /\ procRes[r1] = "err"
         /\ issues[r1] = 1
         /\ r1 \notin openIssues
         /\ procRes[r2] = "rec"
         /\ pgCalls[r2] # <<>>

====
